---- MODULE Spec2Model ----
(***************************************************************************)
(* Model of the WKT codec of src/ppge/geomet/wkt.py: the tokenizer         *)
(* (_tokenize_wkt), the parser (loads and the _load_* routines), the       *)
(* serializer (dumps and the _dump_* routines) and the numeric rendering   *)
(* (_round_and_pad).                                                       *)
(*                                                                         *)
(* A Python string is a sequence of one-character strings.  A number is a  *)
(* record [int, neg, mag]: int tells a Python int from a float, neg is the *)
(* sign (kept apart so that -0.0 exists) and mag is the magnitude in units *)
(* of 10^-FracDigits.  A Python list is a record [k |-> "list", items],    *)
(* a number carries k |-> "number", so that a coordinate structure of any  *)
(* nesting is a tree of records.  A dict key that may be absent is a       *)
(* sequence of length 0 (absent) or 1 (present).                           *)
(***************************************************************************)
EXTENDS Integers, Sequences, FiniteSets, TLC

VARIABLES
    call,      \* the call made last: its name, "none" before any call
    ordinate,  \* the value given to _round_and_pad
    decimals,  \* the decimals given to _round_and_pad and to dumps
    obj,       \* the geometry given to dumps, or the one a text given to loads says
    string,    \* the text given to loads and to _tokenize_wkt
    lexed,     \* the tokens the lexer yields inside _tokenize_wkt
    tokens,    \* the tokens _tokenize_wkt yields from them
    result,    \* the outcome of the call: what it returns or raises
    file,      \* the content of the file-like object given to dump or to load
    extra,     \* the positional arguments given to dump after dest_file
    heap,      \* the mutable objects of the interpreter: heap[a] is the one at address a
    held,      \* the addresses of the geometry values the caller holds
    rows,      \* the rows given to an exporter
    exported,  \* what the exporter wrote
    start,     \* the index of the first token given to a parser of a body
    rest,      \* the tokens the parser left in the token sequence
    columns,   \* the keys of the first row given to the CSV exporter, in their order
    geom_key,  \* the key of the geometry in the rows
    geometry_column,  \* the name _get_geometry_column_name returned
    fieldnames \* the header of the CSV file

\* the variables of the stream wrappers
streamVars == <<file, extra>>

\* the variables of the object store
heapVars == <<heap, held>>

\* the variables of the exporters
exportVars == <<rows, exported>>

\* the variables of the parsers of a body
bodyVars == <<start, rest>>

\* the variables of the header of the CSV file
headerVars == <<columns, geom_key, geometry_column, fieldnames>>

vars == <<call, ordinate, decimals, obj, string, lexed, tokens, result, streamVars,
          heapVars, exportVars, bodyVars,
          headerVars>>

----------------------------------------------------------------------------
(* Bounds of the model *)

\* number of decimal digits a modelled number carries after the point
FracDigits == 6

\* _round_and_pad is called with decimals in 0..MaxDecimals
MaxDecimals == 6

\* dumps is called with decimals in 0..MaxDumpDecimals
MaxDumpDecimals == 2

\* a multi-part geometry has up to MaxMembers members, a polygon up to
\* MaxMembers rings
MaxMembers == 2

\* the lexer yields up to MaxLexed tokens in the calls of _tokenize_wkt that
\* are given the lexer's tokens
MaxLexed == 4

Scale == 10 ^ FracDigits

----------------------------------------------------------------------------
(* Characters and strings *)

Digits == <<"0", "1", "2", "3", "4", "5", "6", "7", "8", "9">>

DigitSet == {Digits[i] : i \in 1..10}

DigitChar(n) == Digits[n + 1]

DigitVal(c) == (CHOOSE i \in 1..10 : Digits[i] = c) - 1

LowerCase == <<"a", "b", "c", "d", "e", "f", "g", "h", "i", "j", "k", "l", "m",
               "n", "o", "p", "q", "r", "s", "t", "u", "v", "w", "x", "y", "z">>

UpperCase == <<"A", "B", "C", "D", "E", "F", "G", "H", "I", "J", "K", "L", "M",
               "N", "O", "P", "Q", "R", "S", "T", "U", "V", "W", "X", "Y", "Z">>

LetterSet == {LowerCase[i] : i \in 1..26} \cup {UpperCase[i] : i \in 1..26} \cup {"_"}

\* str.upper() of one character
UpperChar(c) ==
    IF \E i \in 1..26 : LowerCase[i] = c
    THEN UpperCase[CHOOSE i \in 1..26 : LowerCase[i] = c]
    ELSE c

\* str.upper()
Upper(s) == [i \in DOMAIN s |-> UpperChar(s[i])]

\* F(x), with x evaluated once however often F uses it
Apply(F(_), x) == CHOOSE y \in {F(v) : v \in {x}} : TRUE

\* c * n for a one-character string c
Repeat(c, n) == IF n <= 0 THEN <<>> ELSE [i \in 1..n |-> c]

Contains(s, c) == \E i \in DOMAIN s : s[i] = c

\* the index of the first occurrence of c in s (s contains c)
IndexOf(s, c) == CHOOSE i \in DOMAIN s : s[i] = c /\ \A j \in 1..(i - 1) : s[j] # c

RECURSIVE NatStr(_)
\* the decimal digits of a natural number
NatStr(n) == IF n < 10 THEN <<DigitChar(n)>>
             ELSE NatStr(n \div 10) \o <<DigitChar(n % 10)>>

\* repr / str of a Python int
IntStr(n) == IF n < 0 THEN <<"-">> \o NatStr(-n) ELSE NatStr(n)

RECURSIVE DigitsVal(_)
\* the value of a string of digits
DigitsVal(s) == IF s = <<>> THEN 0
                ELSE 10 * DigitsVal(SubSeq(s, 1, Len(s) - 1)) + DigitVal(s[Len(s)])

AllDigits(s) == \A i \in DOMAIN s : s[i] \in DigitSet

RECURSIVE StripZeros(_)
\* a string of digits without its trailing zeros
StripZeros(s) == IF s # <<>> /\ s[Len(s)] = "0" THEN StripZeros(SubSeq(s, 1, Len(s) - 1))
                 ELSE s

\* n as a string of exactly w digits (n < 10^w)
PadNat(n, w) == Repeat("0", w - Len(NatStr(n))) \o NatStr(n)

----------------------------------------------------------------------------
(* Python numbers *)

FloatVal(neg, mag) == [k |-> "number", int |-> FALSE, neg |-> neg, mag |-> mag]

IntVal(n) ==
    [k |-> "number", int |-> TRUE, neg |-> n < 0, mag |-> (IF n < 0 THEN -n ELSE n) * Scale]

\* float(value)
PyFloat(v) == [v EXCEPT !.int = FALSE]

\* int(value): truncation towards zero
PyInt(v) == LET m == (v.mag \div Scale) * Scale
            IN  [k |-> "number", int |-> TRUE, neg |-> v.neg /\ m # 0, mag |-> m]

\* the double nearest to mag / Scale is that very number: its denominator in
\* lowest terms is a power of two
ExactInBinary(mag) == mag % (5 ^ FracDigits) = 0

\* round(value, d).  An int is returned unchanged for d >= 0.  A float is
\* rounded to the nearest multiple of 10^-d; a tie that the double holds
\* exactly goes to the even neighbour, and a decimal tie that the double does
\* not hold exactly goes where the double lies, above or below (tieUp).
PyRound(v, d, tieUp) ==
    IF v.int \/ d >= FracDigits THEN v
    ELSE LET q    == 10 ^ (FracDigits - d)
             lo   == v.mag \div q
             rem  == v.mag % q
             up   == \/ 2 * rem > q
                     \/ /\ 2 * rem = q
                        /\ IF ExactInBinary(v.mag) THEN lo % 2 = 1 ELSE tieUp
         IN  [v EXCEPT !.mag = (IF up THEN lo + 1 ELSE lo) * q]

\* repr of a Python int
ReprInt(v) == IntStr(IF v.neg THEN -(v.mag \div Scale) ELSE v.mag \div Scale)

Sign(v) == IF v.neg THEN <<"-">> ELSE <<>>

\* the digits after the point of a float, FracDigits of them
FracStr(v) == PadNat(v.mag % Scale, FracDigits)

\* repr of a Python float below 10^16: the shortest string that reads back as
\* the float, with an exponent when the value is below 10^-4
ReprFloat(v) ==
    IF v.mag # 0 /\ v.mag < Scale \div 10000
    THEN LET ds == StripZeros(NatStr(v.mag))
             e  == FracDigits - Len(NatStr(v.mag)) + 1
         IN  Sign(v) \o <<ds[1]>>
             \o (IF Len(ds) > 1 THEN <<".">> \o SubSeq(ds, 2, Len(ds)) ELSE <<>>)
             \o <<"e", "-">> \o PadNat(e, 2)
    ELSE LET fr == StripZeros(FracStr(v))
         IN  Sign(v) \o NatStr(v.mag \div Scale) \o <<".">>
             \o (IF fr = <<>> THEN <<"0">> ELSE fr)

\* format(value, '.<d>f') of a float that is a multiple of 10^-d
FormatFixed(v, d) ==
    Sign(v) \o NatStr(v.mag \div Scale) \o <<".">>
    \o (IF d <= FracDigits THEN SubSeq(FracStr(v), 1, d)
        ELSE FracStr(v) \o Repeat("0", d - FracDigits))

\* s.split('.')[1] of a string with one point
AfterPoint(s) == SubSeq(s, IndexOf(s, ".") + 1, Len(s))

\* _round_and_pad without the reformatting of an exponent
round_and_pad_keeps_exponent(value, d, tieUp) ==
    IF (~(value.int /\ d # 0)) /\ d = 0
    THEN ReprInt(PyInt(PyRound(value, d, tieUp)))
    ELSE LET rounded == ReprFloat(PyRound(PyFloat(value), d, tieUp))
         IN  IF Contains(rounded, ".")
             THEN rounded \o Repeat("0", d - Len(AfterPoint(rounded)))
             ELSE rounded

\* _round_and_pad(value, decimals)
round_and_pad(value, d, tieUp) ==
    IF (~(value.int /\ d # 0)) /\ d = 0
    THEN ReprInt(PyInt(PyRound(value, d, tieUp)))
    ELSE Apply(LAMBDA rounded : rounded \o Repeat("0", d - Len(AfterPoint(rounded))),
               Apply(LAMBDA num : IF Contains(ReprFloat(num), "e")
                                  THEN FormatFixed(num, d)
                                  ELSE ReprFloat(num),
                     PyRound(IF value.int /\ d # 0 THEN PyFloat(value) ELSE value,
                             d, tieUp)))

----------------------------------------------------------------------------
(* The lexer: tokenize.generate_tokens on a one-line string                *)
(*                                                                         *)
(* The strings of the model are made of letters, digits, the point, the    *)
(* space and the operators ( ) , = ; - :  and never put a letter or an     *)
(* underscore right after a digit, so the exponent, imaginary and prefixed *)
(* forms of a Python number do not occur.                                  *)

OpenChars == {"(", "[", "{"}

CloseChars == {")", "]", "}"}

\* the two-character operators that the operator characters of the model form
TwoCharOps == {<<"=", "=">>, <<"-", "=">>, <<":", "=">>}

\* the end of the longest run of characters of set cs that starts at p
\* (p - 1 when text[p] is not in cs)
RunEnd(text, p, cs) ==
    IF \E q \in p..Len(text) : text[q] \notin cs
    THEN (CHOOSE q \in p..Len(text) :
              text[q] \notin cs /\ \A r \in p..(q - 1) : text[r] \in cs) - 1
    ELSE Len(text)

\* the end of the number token that starts at p: a point float before an
\* integer, and an integer that starts with 0 is a run of zeros
NumberEnd(text, p) ==
    LET run == RunEnd(text, p, DigitSet)
    IN  IF run < Len(text) /\ text[run + 1] = "."
        THEN RunEnd(text, run + 2, DigitSet)
        ELSE IF text[p] = "0" THEN RunEnd(text, p, {"0"}) ELSE run

\* the end of the token that starts at p (text[p] is not a space)
TokenEnd(text, p) ==
    LET c == text[p]
    IN  IF c \in DigitSet THEN NumberEnd(text, p)
        ELSE IF c = "." /\ p < Len(text) /\ text[p + 1] \in DigitSet
             THEN RunEnd(text, p + 1, DigitSet)
        ELSE IF c \in LetterSet THEN RunEnd(text, p, LetterSet \cup DigitSet)
        ELSE IF p < Len(text) /\ <<c, text[p + 1]>> \in TwoCharOps THEN p + 1
        ELSE p

\* the characters that are a token of their own wherever they stand, and the
\* space, which is in no token
Separators == {" ", "(", ")", ","}

RECURSIVE LexFrom(_, _, _, _)
\* the tokens of text[p..hi], a piece without separators, after the tokens
\* toks: each token is the longest one that starts where the last one ended
LexFrom(text, p, hi, toks) ==
    IF p > hi THEN toks
    ELSE LexFrom(text, TokenEnd(text, p) + 1, hi,
                 Append(toks, SubSeq(text, p, TokenEnd(text, p))))

\* the separator of text[lo..hi] that is nearest to its middle
MiddleSeparator(text, lo, hi) ==
    CHOOSE q \in lo..hi :
        /\ text[q] \in Separators
        /\ \A r \in lo..hi :
               text[r] \in Separators
                   => (r - q) * (r + q - lo - hi) >= 0

RECURSIVE LexRange(_, _, _)
\* the tokens of text[lo..hi]: a separator ends the token before it and is
\* followed by a new one, so the tokens are those before the separator, the
\* separator unless it is a space, and those after it
LexRange(text, lo, hi) ==
    IF lo > hi THEN <<>>
    ELSE IF \A q \in lo..hi : text[q] \notin Separators
    THEN LexFrom(text, lo, hi, <<>>)
    ELSE Apply(LAMBDA q : LexRange(text, lo, q - 1)
                              \o (IF text[q] = " " THEN <<>> ELSE << <<text[q]>> >>)
                              \o LexRange(text, q + 1, hi),
               MiddleSeparator(text, lo, hi))

\* the bracket level at the end of the text
ParenLev(text) ==
    Cardinality({q \in DOMAIN text : text[q] \in OpenChars})
        - Cardinality({q \in DOMAIN text : text[q] \in CloseChars})

\* tokenize.generate_tokens: the token strings of a one-line text, and how the
\* generator ends.  Leading spaces before a token are an INDENT token.  At the
\* end of the input the lexer raises TokenError when the bracket level is not
\* 0 (EOF in multi-line statement), and else yields the empty NEWLINE token,
\* an empty DEDENT token when the line was indented, and the empty ENDMARKER.
Lex(text) ==
    IF RunEnd(text, 1, {" "}) = Len(text)
    THEN [toks |-> << <<>> >>, end |-> "StopIteration"]
    ELSE [toks |-> (IF RunEnd(text, 1, {" "}) = 0 THEN <<>>
                    ELSE << SubSeq(text, 1, RunEnd(text, 1, {" "})) >>)
                   \o LexRange(text, RunEnd(text, 1, {" "}) + 1, Len(text))
                   \o (IF ParenLev(text) # 0 THEN <<>>
                       ELSE IF RunEnd(text, 1, {" "}) = 0 THEN << <<>>, <<>> >>
                       ELSE << <<>>, <<>>, <<>> >>),
          end  |-> IF ParenLev(text) # 0 THEN "TokenError" ELSE "StopIteration"]

----------------------------------------------------------------------------
(* _tokenize_wkt *)

\* the loop of _tokenize_wkt with the minus sign yielded as a token of its own
stitch_forwarding_minus(ts, negative) ==
    SelectSeq(ts, LAMBDA t : t # <<>>)

\* one turn of the loop with the variable negative cleared by an empty token
StitchStep_cleared_by_empty(st, t) ==
    IF t = <<"-">> THEN [st EXCEPT !.negative = TRUE]
    ELSE IF t = <<>> THEN [st EXCEPT !.negative = FALSE]
    ELSE [negative |-> FALSE,
          yielded  |-> Append(st.yielded, IF st.negative THEN <<"-">> \o t ELSE t)]

\* one turn of the loop of _tokenize_wkt, for the lexer's token t: st holds
\* the variable negative and the tokens yielded so far
StitchStep(st, t) ==
    IF t = <<"-">> THEN [st EXCEPT !.negative = TRUE]
    ELSE IF t = <<>> THEN st
    ELSE [negative |-> FALSE,
          yielded  |-> Append(st.yielded, IF st.negative THEN <<"-">> \o t ELSE t)]

RECURSIVE StitchLoop(_, _, _, _)
\* the turns of the loop for ts[lo..hi] in order, the first half and then
\* the second
StitchLoop(ts, lo, hi, st) ==
    IF lo > hi THEN st
    ELSE IF lo = hi THEN StitchStep(st, ts[lo])
    ELSE Apply(LAMBDA half : StitchLoop(ts, (lo + hi) \div 2 + 1, hi, half),
               StitchLoop(ts, lo, (lo + hi) \div 2, st))

\* the loop of _tokenize_wkt over the lexer's tokens ts: the tokens it yields
stitch(ts, negative) ==
    StitchLoop(ts, 1, Len(ts), [negative |-> negative, yielded |-> <<>>]).yielded

\* _tokenize_wkt(string): the tokens the generator yields and how it ends
tokenize_wkt(s) ==
    LET lx == Lex(s)
    IN  [toks |-> stitch(lx.toks, FALSE), end |-> lx.end]

----------------------------------------------------------------------------
(* Names, geometry values, outcomes *)

Point == <<"P", "o", "i", "n", "t">>
LineString == <<"L", "i", "n", "e", "S", "t", "r", "i", "n", "g">>
Polygon == <<"P", "o", "l", "y", "g", "o", "n">>
MultiPoint == <<"M", "u", "l", "t", "i">> \o Point
MultiLineString == <<"M", "u", "l", "t", "i">> \o LineString
MultiPolygon == <<"M", "u", "l", "t", "i">> \o Polygon
GeometryCollection == <<"G", "e", "o", "m", "e", "t", "r", "y",
                        "C", "o", "l", "l", "e", "c", "t", "i", "o", "n">>

POINT == <<"P", "O", "I", "N", "T">>
LINESTRING == <<"L", "I", "N", "E", "S", "T", "R", "I", "N", "G">>
POLYGON == <<"P", "O", "L", "Y", "G", "O", "N">>
MULTIPOINT == <<"M", "U", "L", "T", "I">> \o POINT
MULTILINESTRING == <<"M", "U", "L", "T", "I">> \o LINESTRING
MULTIPOLYGON == <<"M", "U", "L", "T", "I">> \o POLYGON
GEOMETRYCOLLECTION == <<"G", "E", "O", "M", "E", "T", "R", "Y",
                        "C", "O", "L", "L", "E", "C", "T", "I", "O", "N">>
EMPTY == <<"E", "M", "P", "T", "Y">>
SRID == <<"S", "R", "I", "D">>
EPSG == <<"E", "P", "S", "G">>

\* a Python list
List(items) == [k |-> "list", items |-> items]

\* a GeoJSON-like dict with the keys type and coordinates
Geometry(t, coords) ==
    [type |-> <<t>>, coordinates |-> <<coords>>, geometries |-> <<>>,
     meta_srid |-> <<>>, crs_name |-> <<>>]

\* a GeoJSON-like dict with the keys type and geometries
Collection(geoms) ==
    [type |-> <<GeometryCollection>>, coordinates |-> <<>>, geometries |-> <<geoms>>,
     meta_srid |-> <<>>, crs_name |-> <<>>]

\* the call returned v
Return(v) == [exc |-> "", msg |-> "", arg |-> <<>>, arg2 |-> <<>>, value |-> v]

\* the call raised exception exc, its message the format msg filled with arg
\* and arg2
Raise(exc, msg, arg, arg2) ==
    [exc |-> exc, msg |-> msg, arg |-> arg, arg2 |-> arg2, value |-> <<>>]

Returned(r) == r.exc = ""

\* INVALID_WKT_FMT (the source puts the %s between grave accents, which the
\* message of the model leaves out)
INVALID_WKT_FMT == "Invalid WKT: %s"

RECURSIVE Join(_, _)
\* sep.join(strs)
Join(strs, sep) ==
    IF strs = <<>> THEN <<>>
    ELSE IF Len(strs) = 1 THEN strs[1]
    ELSE strs[1] \o sep \o Join(Tail(strs), sep)

\* s starts with prefix
StartsWith(s, prefix) ==
    Len(s) >= Len(prefix) /\ SubSeq(s, 1, Len(prefix)) = prefix

RECURSIVE Remove(_, _)
\* s.replace(old, '') for a non-empty old
Remove(s, old) ==
    IF s = <<>> THEN <<>>
    ELSE IF StartsWith(s, old) THEN Remove(SubSeq(s, Len(old) + 1, Len(s)), old)
    ELSE <<Head(s)>> \o Remove(Tail(s), old)

RECURSIVE CountLeaves(_)
\* len(list(util.flatten_multi_dim(x))) for a list x: the number of values
\* that are not lists, at any depth
CountLeaves(x) ==
    IF x.k = "number" THEN 1
    ELSE IF x.items = <<>> THEN 0
    ELSE CountLeaves(Head(x.items)) + CountLeaves(List(Tail(x.items)))

----------------------------------------------------------------------------
(* The serializer *)

Paren(s) == <<"(">> \o s \o <<")">>

\* ' '.join(_round_and_pad(c, decimals) for c in pt)
PointText(pt, d, tieUp) ==
    Join([i \in DOMAIN pt.items |-> round_and_pad(pt.items[i], d, tieUp)], <<" ">>)

\* ', '.join(' '.join(...) for pt in pts)
PointsText(pts, d, tieUp) ==
    Join([i \in DOMAIN pts.items |-> PointText(pts.items[i], d, tieUp)], <<",", " ">>)

\* ', '.join('(%s)' % r for r in rings)
RingsText(rings, d, tieUp) ==
    Join([i \in DOMAIN rings.items |-> Paren(PointsText(rings.items[i], d, tieUp))],
         <<",", " ">>)

\* _dump_point
dump_point(o, d, tieUp) ==
    LET coords == o.coordinates[1]
    IN  POINT \o <<" ">> \o (IF coords.items = <<>> THEN EMPTY
                             ELSE Paren(PointText(coords, d, tieUp)))

\* _dump_linestring
dump_linestring(o, d, tieUp) ==
    LET coords == o.coordinates[1]
    IN  LINESTRING \o <<" ">> \o (IF coords.items = <<>> THEN EMPTY
                                  ELSE Paren(PointsText(coords, d, tieUp)))

\* _dump_polygon
dump_polygon(o, d, tieUp) ==
    LET coords == o.coordinates[1]
    IN  POLYGON \o <<" ">> \o (IF coords.items = <<>> THEN EMPTY
                               ELSE Paren(RingsText(coords, d, tieUp)))

\* _dump_multipoint without the parentheses around each point
dump_multipoint_bare(o, d, tieUp) ==
    LET coords == o.coordinates[1]
    IN  MULTIPOINT \o <<" ">> \o (IF coords.items = <<>> THEN EMPTY
                                  ELSE Paren(PointsText(coords, d, tieUp)))

\* _dump_multipoint
dump_multipoint(o, d, tieUp) ==
    LET coords == o.coordinates[1]
    IN  MULTIPOINT \o <<" ">>
        \o (IF coords.items = <<>> THEN EMPTY
            ELSE Paren(Join([i \in DOMAIN coords.items |->
                                 Paren(PointText(coords.items[i], d, tieUp))],
                            <<",", " ">>)))

\* _dump_multilinestring
dump_multilinestring(o, d, tieUp) ==
    LET coords == o.coordinates[1]
    IN  MULTILINESTRING \o <<" ">> \o (IF coords.items = <<>> THEN EMPTY
                                       ELSE Paren(RingsText(coords, d, tieUp)))

\* _dump_multipolygon
dump_multipolygon(o, d, tieUp) ==
    LET coords == o.coordinates[1]
    IN  MULTIPOLYGON \o <<" ">>
        \o (IF coords.items = <<>> THEN EMPTY
            ELSE Paren(Join([i \in DOMAIN coords.items |->
                                 Paren(RingsText(coords.items[i], d, tieUp))],
                            <<",", " ">>)))

\* the keys of _dumps_registry
DumpTypes == {Point, LineString, Polygon, MultiPoint, MultiLineString, MultiPolygon,
              GeometryCollection}

RECURSIVE dump_geometrycollection(_, _, _)

\* _dumps_registry.get(geom_type)(geom, decimals) for a geom_type of the
\* registry: the exporter's return value or its exception
Export(geom_type, o, d, tieUp) ==
    IF geom_type = GeometryCollection THEN dump_geometrycollection(o, d, tieUp)
    ELSE IF o.coordinates = <<>> THEN Raise("KeyError", "coordinates", <<>>, <<>>)
    ELSE Return(CASE geom_type = Point -> dump_point(o, d, tieUp)
                  [] geom_type = LineString -> dump_linestring(o, d, tieUp)
                  [] geom_type = Polygon -> dump_polygon(o, d, tieUp)
                  [] geom_type = MultiPoint -> dump_multipoint(o, d, tieUp)
                  [] geom_type = MultiLineString -> dump_multilinestring(o, d, tieUp)
                  [] geom_type = MultiPolygon -> dump_multipolygon(o, d, tieUp))

RECURSIVE DumpMembers(_, _, _, _)
\* the loop of _dump_geometrycollection over the members geoms, geoms_wkt
\* holding the renderings so far
DumpMembers(geoms, geoms_wkt, d, tieUp) ==
    IF geoms = <<>> THEN Return(Paren(Join(geoms_wkt, <<",">>)))
    ELSE LET geom == Head(geoms)
         IN  IF geom.type = <<>> THEN Raise("KeyError", "type", <<>>, <<>>)
             ELSE IF geom.type[1] \notin DumpTypes
             THEN Raise("TypeError", "'NoneType' object is not callable", <<>>, <<>>)
             ELSE Apply(LAMBDA r : IF Returned(r)
                                   THEN DumpMembers(Tail(geoms), Append(geoms_wkt, r.value),
                                                    d, tieUp)
                                   ELSE r,
                        Export(geom.type[1], geom, d, tieUp))

\* _dump_geometrycollection
dump_geometrycollection(o, d, tieUp) ==
    IF o.geometries = <<>> THEN Raise("KeyError", "geometries", <<>>, <<>>)
    ELSE LET geoms == o.geometries[1]
         IN  IF geoms = <<>> THEN Return(GEOMETRYCOLLECTION \o <<" ">> \o EMPTY)
             ELSE Apply(LAMBDA r : IF Returned(r)
                                   THEN Return(GEOMETRYCOLLECTION \o <<" ">> \o r.value)
                                   ELSE r,
                        DumpMembers(geoms, <<>>, d, tieUp))

\* _unsupported_geom_type
unsupported_geom_type(geom_type) ==
    Raise("ValueError", "Unsupported geometry type '%s'", geom_type, <<>>)

\* the SRID prefix with a meta.srid of 0 taken as no meta.srid before the two
\* values are compared
SridPrefix_zero_absent(o, text) ==
    LET meta_srid == IF o.meta_srid = <<0>> THEN <<>> ELSE o.meta_srid
        crs_srid  == IF o.crs_name = <<>> THEN <<>> ELSE << Remove(o.crs_name[1], EPSG) >>
    IN  IF meta_srid # <<>> /\ crs_srid # <<>> /\ IntStr(meta_srid[1]) # crs_srid[1]
        THEN Raise("ValueError", "Ambiguous CRS/SRID values: %s and %s",
                   IntStr(meta_srid[1]), crs_srid[1])
        ELSE LET srid == IF meta_srid # <<>> THEN << IntStr(meta_srid[1]) >> ELSE crs_srid
             IN  IF srid # <<>>
                 THEN Return(SRID \o <<"=">> \o srid[1] \o <<";">> \o text)
                 ELSE Return(text)

\* the part of dumps after the exporter returned text: the SRID prefix
SridPrefix(o, text) ==
    LET meta_srid == o.meta_srid
        crs_srid  == IF o.crs_name = <<>> THEN <<>> ELSE << Remove(o.crs_name[1], EPSG) >>
    IN  IF meta_srid # <<>> /\ crs_srid # <<>> /\ IntStr(meta_srid[1]) # crs_srid[1]
        THEN Raise("ValueError", "Ambiguous CRS/SRID values: %s and %s",
                   IntStr(meta_srid[1]), crs_srid[1])
        ELSE LET srid == IF meta_srid # <<>> /\ meta_srid[1] # 0
                         THEN << IntStr(meta_srid[1]) >>
                         ELSE crs_srid
             IN  IF srid # <<>>
                 THEN Return(SRID \o <<"=">> \o srid[1] \o <<";">> \o text)
                 ELSE Return(text)

\* raise InvalidGeoJSONException('Invalid GeoJSON: %s' % obj)
InvalidGeoJSON(o) == Raise("InvalidGeoJSONException", "Invalid GeoJSON: %s", o, <<>>)

\* dumps without the handler of KeyError
dumps_without_handler(o, d, tieUp) ==
    IF o.type = <<>> THEN Raise("KeyError", "type", <<>>, <<>>)
    ELSE IF o.type[1] \notin DumpTypes THEN unsupported_geom_type(o.type[1])
    ELSE IF o.type[1] = GeometryCollection /\ o.geometries = <<>>
    THEN Raise("KeyError", "geometries", <<>>, <<>>)
    ELSE IF o.type[1] = GeometryCollection /\ Len(o.geometries[1]) = 0
    THEN Return(GEOMETRYCOLLECTION \o <<" ">> \o EMPTY)
    ELSE IF o.type[1] # GeometryCollection /\ o.coordinates = <<>>
    THEN Raise("KeyError", "coordinates", <<>>, <<>>)
    ELSE IF o.type[1] # GeometryCollection /\ CountLeaves(o.coordinates[1]) = 0
    THEN Return(Upper(o.type[1]) \o <<" ">> \o EMPTY)
    ELSE Apply(LAMBDA r : IF Returned(r) THEN SridPrefix(o, r.value) ELSE r,
               Export(o.type[1], o, d, tieUp))

\* dumps writing the type of an empty geometry as it is spelled in the value
dumps_keeping_case(o, d, tieUp) ==
    IF o.type = <<>> THEN InvalidGeoJSON(o)
    ELSE IF o.type[1] \notin DumpTypes THEN unsupported_geom_type(o.type[1])
    ELSE IF o.type[1] = GeometryCollection /\ o.geometries = <<>>
    THEN InvalidGeoJSON(o)
    ELSE IF o.type[1] = GeometryCollection /\ Len(o.geometries[1]) = 0
    THEN Return(o.type[1] \o <<" ">> \o EMPTY)
    ELSE IF o.type[1] # GeometryCollection /\ o.coordinates = <<>>
    THEN InvalidGeoJSON(o)
    ELSE IF o.type[1] # GeometryCollection /\ CountLeaves(o.coordinates[1]) = 0
    THEN Return(o.type[1] \o <<" ">> \o EMPTY)
    ELSE Apply(LAMBDA r : IF Returned(r) THEN SridPrefix(o, r.value) ELSE r,
               Export(o.type[1], o, d, tieUp))

\* dumps with the EMPTY short circuit taken for a list of length 0 only, a
\* structure of empty lists being written as an empty pair of parentheses
dumps_by_length(o, d, tieUp) ==
    IF o.type = <<>> THEN InvalidGeoJSON(o)
    ELSE IF o.type[1] \notin DumpTypes THEN unsupported_geom_type(o.type[1])
    ELSE IF o.type[1] = GeometryCollection /\ o.geometries = <<>>
    THEN InvalidGeoJSON(o)
    ELSE IF o.type[1] = GeometryCollection /\ Len(o.geometries[1]) = 0
    THEN Return(GEOMETRYCOLLECTION \o <<" ">> \o EMPTY)
    ELSE IF o.type[1] # GeometryCollection /\ o.coordinates = <<>>
    THEN InvalidGeoJSON(o)
    ELSE IF o.type[1] # GeometryCollection /\ Len(o.coordinates[1].items) = 0
    THEN Return(Upper(o.type[1]) \o <<" ">> \o EMPTY)
    ELSE IF o.type[1] # GeometryCollection /\ CountLeaves(o.coordinates[1]) = 0
    THEN Return(Upper(o.type[1]) \o <<" ">> \o Paren(<<>>))
    ELSE Apply(LAMBDA r : IF Returned(r) THEN SridPrefix(o, r.value) ELSE r,
               Export(o.type[1], o, d, tieUp))

\* dumps(obj, decimals)
dumps(o, d, tieUp) ==
    IF o.type = <<>> THEN InvalidGeoJSON(o)
    ELSE LET geom_type == o.type[1]
         IN  IF geom_type \notin DumpTypes THEN unsupported_geom_type(geom_type)
             ELSE IF geom_type = GeometryCollection /\ o.geometries = <<>>
             THEN InvalidGeoJSON(o)
             ELSE IF geom_type = GeometryCollection /\ Len(o.geometries[1]) = 0
             THEN Return(GEOMETRYCOLLECTION \o <<" ">> \o EMPTY)
             ELSE IF geom_type # GeometryCollection /\ o.coordinates = <<>>
             THEN InvalidGeoJSON(o)
             ELSE IF geom_type # GeometryCollection /\ CountLeaves(o.coordinates[1]) = 0
             THEN Return(Upper(geom_type) \o <<" ">> \o EMPTY)
             ELSE Apply(LAMBDA r : IF Returned(r) THEN SridPrefix(o, r.value) ELSE r,
                        Export(geom_type, o, d, tieUp))

----------------------------------------------------------------------------
(* The parser *)

\* the token sequence of the parser: the tokens _tokenize_wkt yields, and the
\* exception that ends the generator (StopIteration, or the lexer's
\* TokenError).  A position p in 1..Len(toks)+1 is the next token to read.
AtEnd(S, p) == p > Len(S.toks)

\* what next(tokens) raises at the end of the tokens
EndOfTokens(S) ==
    IF S.end = "TokenError"
    THEN Raise("TokenError", "EOF in multi-line statement", <<>>, <<>>)
    ELSE Raise("StopIteration", "", <<>>, <<>>)

\* raise ValueError(INVALID_WKT_FMT % string)
InvalidWkt(str) == Raise("ValueError", INVALID_WKT_FMT, str, <<>>)

\* the string is one that float() and int() read digits from: an optional
\* sign, then the digits
Unsigned(t) == IF t # <<>> /\ Head(t) = "-" THEN Tail(t) ELSE t

\* float(t) succeeds: digits with an optional point, or a point and digits
\* (the tokens of the model never spell inf, nan or infinity)
IsFloatLiteral(t) ==
    LET u == Unsigned(t)
    IN  /\ u # <<>>
        /\ \A i \in DOMAIN u : u[i] \in DigitSet \cup {"."}
        /\ Cardinality({i \in DOMAIN u : u[i] = "."}) <= 1
        /\ \E i \in DOMAIN u : u[i] \in DigitSet

\* float(t) of such a string (digits after the first FracDigits are dropped:
\* they are zeros in every string of the model)
FloatOf(t) ==
    LET u     == Unsigned(t)
        pt    == IF Contains(u, ".") THEN IndexOf(u, ".") ELSE Len(u) + 1
        whole == SubSeq(u, 1, pt - 1)
        frac  == SubSeq(u, pt + 1, Len(u))
        fr    == SubSeq(frac \o Repeat("0", FracDigits), 1, FracDigits)
    IN  FloatVal(t[1] = "-", DigitsVal(whole) * Scale + DigitsVal(fr))

\* float(t): the float, or the ValueError of float
ToFloat(t) ==
    IF IsFloatLiteral(t) THEN Return(FloatOf(t))
    ELSE Raise("ValueError", "could not convert string to float: %s", t, <<>>)

\* int(t) succeeds
IsIntLiteral(t) == Unsigned(t) # <<>> /\ AllDigits(Unsigned(t))

\* int(t) of such a string
IntOf(t) == IF t[1] = "-" THEN -DigitsVal(Unsigned(t)) ELSE DigitsVal(Unsigned(t))

\* int(t): the int, or the ValueError of int
ToInt(t) ==
    IF IsIntLiteral(t) THEN Return(IntOf(t))
    ELSE Raise("ValueError", "invalid literal for int() with base 10: %s", t, <<>>)

\* the outcome res of a routine that has read the tokens before pos
Out(res, pos) == [res |-> res, pos |-> pos]

\* A for loop over the tokens is the turns of its body in order.  The state
\* of a loop holds pos, the next token to read, done, set by break and by an
\* exception, raised, the exception if there is one, and the local variables
\* of the routine.
Looping(p) == [pos |-> p, done |-> FALSE, raised |-> <<>>]

\* as Break, the token of the turn being left in the token sequence
Break_without_reading(st) == [st EXCEPT !.done = TRUE]

\* the state after a turn that breaks
Break(st) == [st EXCEPT !.pos = @ + 1, !.done = TRUE]

\* the state after a turn in which float(t) raises
FloatError(st, t) == [st EXCEPT !.pos = @ + 1, !.done = TRUE, !.raised = <<ToFloat(t)>>]

\* the outcome of a routine whose loop ended in state st: the exception of
\* the loop, the ValueError for the TokenError that ends the tokens, or what
\* the routine returns after the loop
AfterLoop(S, st, res, str) ==
    IF st.raised # <<>> THEN Out(st.raised[1], st.pos)
    ELSE IF ~st.done /\ S.end = "TokenError" THEN Out(InvalidWkt(str), st.pos)
    ELSE Out(res, st.pos)

\* one turn of the loop of _load_point, for the token t
PointStep(st, t) ==
    IF st.done THEN st
    ELSE IF t = <<")">> THEN Break(st)
    ELSE IF ~IsFloatLiteral(t) THEN FloatError(st, t)
    ELSE [st EXCEPT !.pos = @ + 1, !.coords = Append(@, FloatOf(t))]

RECURSIVE PointLoop(_, _, _, _)
\* the loop of _load_point over the tokens lo..hi: the turns of the first
\* half, then those of the second
PointLoop(S, lo, hi, st) ==
    IF lo > hi THEN st
    ELSE IF lo = hi THEN PointStep(st, S.toks[lo])
    ELSE Apply(LAMBDA half : PointLoop(S, (lo + hi) \div 2 + 1, hi, half),
               PointLoop(S, lo, (lo + hi) \div 2, st))

\* _load_point(tokens, string)
load_point(S, p, str) ==
    IF AtEnd(S, p) THEN Out(EndOfTokens(S), p)
    ELSE IF S.toks[p] = EMPTY THEN Out(Return(Geometry(Point, List(<<>>))), p + 1)
    ELSE IF S.toks[p] # <<"(">> THEN Out(InvalidWkt(str), p + 1)
    ELSE Apply(LAMBDA st : AfterLoop(S, st, Return(Geometry(Point, List(st.coords))), str),
               PointLoop(S, p + 1, Len(S.toks),
                         Looping(p + 1) @@ [coords |-> <<>>]))

\* one turn of the loop of _load_linestring, for the token t
LineStringStep(st, t) ==
    IF st.done THEN st
    ELSE IF t = <<")">>
    THEN [Break(st) EXCEPT !.coords = Append(@, List(st.pt))]
    ELSE IF t = <<",">>
    THEN [st EXCEPT !.pos = @ + 1, !.coords = Append(@, List(st.pt)), !.pt = <<>>]
    ELSE IF ~IsFloatLiteral(t) THEN FloatError(st, t)
    ELSE [st EXCEPT !.pos = @ + 1, !.pt = Append(@, FloatOf(t))]

RECURSIVE LineStringLoop(_, _, _, _)
\* the loop of _load_linestring over the tokens lo..hi
LineStringLoop(S, lo, hi, st) ==
    IF lo > hi THEN st
    ELSE IF lo = hi THEN LineStringStep(st, S.toks[lo])
    ELSE Apply(LAMBDA half : LineStringLoop(S, (lo + hi) \div 2 + 1, hi, half),
               LineStringLoop(S, lo, (lo + hi) \div 2, st))

\* _load_linestring(tokens, string)
load_linestring(S, p, str) ==
    IF AtEnd(S, p) THEN Out(EndOfTokens(S), p)
    ELSE IF S.toks[p] = EMPTY THEN Out(Return(Geometry(LineString, List(<<>>))), p + 1)
    ELSE IF S.toks[p] # <<"(">> THEN Out(InvalidWkt(str), p + 1)
    ELSE Apply(LAMBDA st : AfterLoop(S, st, Return(Geometry(LineString, List(st.coords))),
                                     str),
               LineStringLoop(S, p + 1, Len(S.toks),
                              Looping(p + 1) @@ [coords |-> <<>>, pt |-> <<>>]))

\* one turn of the loop of _load_polygon, for the token t
PolygonStep(st, t) ==
    IF st.done THEN st
    ELSE IF t = <<")">> /\ st.on_ring
    THEN [st EXCEPT !.pos = @ + 1,
                    !.ring = Append(@, List(st.pt)),
                    !.coords = Append(@, List(Append(st.ring, List(st.pt)))),
                    !.on_ring = FALSE]
    ELSE IF t = <<")">> /\ ~st.on_ring THEN Break(st)
    ELSE IF t = <<"(">>
    THEN [st EXCEPT !.pos = @ + 1, !.ring = <<>>, !.pt = <<>>, !.on_ring = TRUE]
    ELSE IF t = <<",">> /\ st.on_ring
    THEN [st EXCEPT !.pos = @ + 1, !.ring = Append(@, List(st.pt)), !.pt = <<>>]
    ELSE IF t = <<",">> /\ ~st.on_ring THEN [st EXCEPT !.pos = @ + 1]
    ELSE IF ~IsFloatLiteral(t) THEN FloatError(st, t)
    ELSE IF st.on_ring THEN [st EXCEPT !.pos = @ + 1, !.pt = Append(@, FloatOf(t))]
    ELSE \* pt is the list object that ends the ring that ends coords
         [st EXCEPT !.pos = @ + 1,
                    !.pt = Append(@, FloatOf(t)),
                    !.ring[Len(st.ring)] = List(Append(st.pt, FloatOf(t))),
                    !.coords[Len(st.coords)] =
                        List([st.ring EXCEPT ![Len(st.ring)] =
                                                 List(Append(st.pt, FloatOf(t)))])]

RECURSIVE PolygonLoop(_, _, _, _)
\* the loop of _load_polygon over the tokens lo..hi
PolygonLoop(S, lo, hi, st) ==
    IF lo > hi THEN st
    ELSE IF lo = hi THEN PolygonStep(st, S.toks[lo])
    ELSE Apply(LAMBDA half : PolygonLoop(S, (lo + hi) \div 2 + 1, hi, half),
               PolygonLoop(S, lo, (lo + hi) \div 2, st))

\* _load_polygon(tokens, string)
load_polygon(S, p, str) ==
    IF AtEnd(S, p) THEN Out(EndOfTokens(S), p)
    ELSE IF S.toks[p] = EMPTY THEN Out(Return(Geometry(Polygon, List(<<>>))), p + 1)
    ELSE IF AtEnd(S, p + 1) THEN Out(EndOfTokens(S), p + 1)
    ELSE IF <<S.toks[p + 1], S.toks[p]>> # << <<"(">>, <<"(">> >>
    THEN Out(InvalidWkt(str), p + 2)
    ELSE Apply(LAMBDA st : AfterLoop(S, st, Return(Geometry(Polygon, List(st.coords))), str),
               PolygonLoop(S, p + 2, Len(S.toks),
                           Looping(p + 2) @@ [coords |-> <<>>, ring |-> <<>>,
                                              pt |-> <<>>, on_ring |-> TRUE]))

\* as MultiPointDone, the point left after the loop being dropped
MultiPointDone_without_last(coords, pt) == Return(Geometry(MultiPoint, List(coords)))

\* the end of _load_multipoint: the last point is added when it has ordinates
MultiPointDone(coords, pt) ==
    Return(Geometry(MultiPoint, List(IF Len(pt) > 0 THEN Append(coords, List(pt))
                                     ELSE coords)))

\* one turn of the loop of _load_multipoint, for the token t
MultiPointStep(st, t) ==
    IF st.done THEN st
    ELSE IF t = <<"(">> THEN [st EXCEPT !.pos = @ + 1, !.paren_depth = @ + 1]
    ELSE IF t = <<")">>
    THEN IF st.paren_depth - 1 = 0 THEN [Break(st) EXCEPT !.paren_depth = @ - 1]
         ELSE [st EXCEPT !.pos = @ + 1, !.paren_depth = @ - 1]
    ELSE IF t = <<",">>
    THEN [st EXCEPT !.pos = @ + 1, !.coords = Append(@, List(st.pt)), !.pt = <<>>]
    ELSE IF ~IsFloatLiteral(t) THEN FloatError(st, t)
    ELSE [st EXCEPT !.pos = @ + 1, !.pt = Append(@, FloatOf(t))]

RECURSIVE MultiPointLoop(_, _, _, _)
\* the loop of _load_multipoint over the tokens lo..hi
MultiPointLoop(S, lo, hi, st) ==
    IF lo > hi THEN st
    ELSE IF lo = hi THEN MultiPointStep(st, S.toks[lo])
    ELSE Apply(LAMBDA half : MultiPointLoop(S, (lo + hi) \div 2 + 1, hi, half),
               MultiPointLoop(S, lo, (lo + hi) \div 2, st))

\* _load_multipoint(tokens, string)
load_multipoint(S, p, str) ==
    IF AtEnd(S, p) THEN Out(EndOfTokens(S), p)
    ELSE IF S.toks[p] = EMPTY THEN Out(Return(Geometry(MultiPoint, List(<<>>))), p + 1)
    ELSE IF S.toks[p] # <<"(">> THEN Out(InvalidWkt(str), p + 1)
    ELSE Apply(LAMBDA st : AfterLoop(S, st, MultiPointDone(st.coords, st.pt), str),
               MultiPointLoop(S, p + 1, Len(S.toks),
                              Looping(p + 1) @@ [coords |-> <<>>, pt |-> <<>>,
                                                 paren_depth |-> 1]))

\* except (StopIteration, tokenize.TokenError): raise ValueError(INVALID_WKT_FMT)
Caught(res, str) ==
    IF res.exc \in {"StopIteration", "TokenError"} THEN InvalidWkt(str) ELSE res

RECURSIVE MultiPolygonLoop(_, _, _, _)
\* the loop of _load_multipolygon
MultiPolygonLoop(S, p, polygons, str) ==
    Apply(LAMBDA poly :
              IF ~Returned(poly.res) THEN Out(Caught(poly.res, str), poly.pos)
              ELSE IF AtEnd(S, poly.pos) THEN Out(InvalidWkt(str), poly.pos)
              ELSE IF S.toks[poly.pos] = <<")">>
              THEN Out(Return(Geometry(MultiPolygon,
                                       List(Append(polygons,
                                                   poly.res.value.coordinates[1])))),
                       poly.pos + 1)
              ELSE MultiPolygonLoop(S, poly.pos + 1,
                                    Append(polygons, poly.res.value.coordinates[1]), str),
          load_polygon(S, p, str))

\* the elements of a sequence, the last one first
Reversed(seq) == [i \in DOMAIN seq |-> seq[Len(seq) + 1 - i]]

\* _load_multipolygon with each polygon put before the ones read so far
load_multipolygon_newest_first(S, p, str) ==
    IF AtEnd(S, p) THEN Out(EndOfTokens(S), p)
    ELSE IF S.toks[p] = EMPTY THEN Out(Return(Geometry(MultiPolygon, List(<<>>))), p + 1)
    ELSE IF S.toks[p] # <<"(">> THEN Out(InvalidWkt(str), p + 1)
    ELSE Apply(LAMBDA out :
                   IF ~Returned(out.res) THEN out
                   ELSE Out(Return(Geometry(MultiPolygon,
                                            List(Reversed(out.res.value.coordinates[1].items)))),
                            out.pos),
               MultiPolygonLoop(S, p + 1, <<>>, str))

\* _load_multipolygon(tokens, string)
load_multipolygon(S, p, str) ==
    IF AtEnd(S, p) THEN Out(EndOfTokens(S), p)
    ELSE IF S.toks[p] = EMPTY THEN Out(Return(Geometry(MultiPolygon, List(<<>>))), p + 1)
    ELSE IF S.toks[p] # <<"(">> THEN Out(InvalidWkt(str), p + 1)
    ELSE MultiPolygonLoop(S, p + 1, <<>>, str)

RECURSIVE MultiLineStringLoop(_, _, _, _)
\* the loop of _load_multilinestring
MultiLineStringLoop(S, p, linestrs, str) ==
    Apply(LAMBDA linestr :
              IF ~Returned(linestr.res) THEN Out(Caught(linestr.res, str), linestr.pos)
              ELSE IF AtEnd(S, linestr.pos) THEN Out(InvalidWkt(str), linestr.pos)
              ELSE IF S.toks[linestr.pos] = <<")">>
              THEN Out(Return(Geometry(MultiLineString,
                                       List(Append(linestrs,
                                                   linestr.res.value.coordinates[1])))),
                       linestr.pos + 1)
              ELSE MultiLineStringLoop(S, linestr.pos + 1,
                                       Append(linestrs, linestr.res.value.coordinates[1]),
                                       str),
          load_linestring(S, p, str))

\* _load_multilinestring(tokens, string)
load_multilinestring(S, p, str) ==
    IF AtEnd(S, p) THEN Out(EndOfTokens(S), p)
    ELSE IF S.toks[p] = EMPTY
    THEN Out(Return(Geometry(MultiLineString, List(<<>>))), p + 1)
    ELSE IF S.toks[p] # <<"(">> THEN Out(InvalidWkt(str), p + 1)
    ELSE MultiLineStringLoop(S, p + 1, <<>>, str)

\* the keys of _loads_registry
LoadTypes == {POINT, LINESTRING, POLYGON, MULTIPOINT, MULTILINESTRING, MULTIPOLYGON,
              GEOMETRYCOLLECTION}

\* _type_map_caps_to_mixed
type_map_caps_to_mixed(geom_type) ==
    CASE geom_type = POINT -> Point
      [] geom_type = LINESTRING -> LineString
      [] geom_type = POLYGON -> Polygon
      [] geom_type = MULTIPOINT -> MultiPoint
      [] geom_type = MULTILINESTRING -> MultiLineString
      [] geom_type = MULTIPOLYGON -> MultiPolygon
      [] geom_type = GEOMETRYCOLLECTION -> GeometryCollection

RECURSIVE load_geometrycollection(_, _, _)

\* _loads_registry.get(geom_type)(tokens, string) for a geom_type of the registry
Import(geom_type, S, p, str) ==
    CASE geom_type = POINT -> load_point(S, p, str)
      [] geom_type = LINESTRING -> load_linestring(S, p, str)
      [] geom_type = POLYGON -> load_polygon(S, p, str)
      [] geom_type = MULTIPOINT -> load_multipoint(S, p, str)
      [] geom_type = MULTILINESTRING -> load_multilinestring(S, p, str)
      [] geom_type = MULTIPOLYGON -> load_multipolygon(S, p, str)
      [] geom_type = GEOMETRYCOLLECTION -> load_geometrycollection(S, p, str)

RECURSIVE GeometryCollectionLoop(_, _, _, _)
\* the loop of _load_geometrycollection
GeometryCollectionLoop(S, p, geoms, str) ==
    IF AtEnd(S, p) THEN Out(InvalidWkt(str), p)
    ELSE LET t == S.toks[p]
         IN  IF t = <<")">> THEN Out(Return(Collection(geoms)), p + 1)
             ELSE IF t = <<",">> THEN GeometryCollectionLoop(S, p + 1, geoms, str)
             ELSE IF t \notin LoadTypes
             THEN Out(Raise("TypeError", "'NoneType' object is not callable", <<>>, <<>>),
                      p + 1)
             ELSE Apply(LAMBDA geom :
                            IF ~Returned(geom.res) THEN Out(Caught(geom.res, str), geom.pos)
                            ELSE GeometryCollectionLoop(S, geom.pos,
                                                        Append(geoms, geom.res.value), str),
                        Import(t, S, p + 1, str))

\* _load_geometrycollection(tokens, string)
load_geometrycollection(S, p, str) ==
    IF AtEnd(S, p) THEN Out(EndOfTokens(S), p)
    ELSE IF S.toks[p] = EMPTY THEN Out(Return(Collection(<<>>)), p + 1)
    ELSE IF S.toks[p] # <<"(">> THEN Out(InvalidWkt(str), p + 1)
    ELSE GeometryCollectionLoop(S, p + 1, <<>>, str)

\* loads reading the token after the type keyword before it looks the
\* keyword up
LoadsBody_peeks_first(S, p, srid, str) ==
    IF AtEnd(S, p) \/ AtEnd(S, p + 1) THEN EndOfTokens(S)
    ELSE IF S.toks[p] \notin LoadTypes THEN unsupported_geom_type(S.toks[p])
    ELSE IF S.toks[p + 1] = EMPTY
    THEN IF S.toks[p] = GEOMETRYCOLLECTION THEN Return(Collection(<<>>))
         ELSE Return(Geometry(type_map_caps_to_mixed(S.toks[p]), List(<<>>)))
    ELSE Apply(LAMBDA r : IF Returned(r) /\ srid # <<>>
                          THEN Return([r.value EXCEPT !.meta_srid = srid])
                          ELSE r,
               Import(S.toks[p], S, p + 1, str).res)

\* the part of loads after the SRID header: tokens from position p on, srid
\* the SRID read (a sequence of length 0 or 1)
LoadsBody(S, p, srid, str) ==
    IF AtEnd(S, p) THEN EndOfTokens(S)
    ELSE LET geom_type == S.toks[p]
         IN  IF geom_type \notin LoadTypes THEN unsupported_geom_type(geom_type)
             ELSE IF AtEnd(S, p + 1) THEN EndOfTokens(S)
             ELSE IF S.toks[p + 1] = EMPTY
             THEN IF geom_type = GEOMETRYCOLLECTION THEN Return(Collection(<<>>))
                  ELSE Return(Geometry(type_map_caps_to_mixed(geom_type), List(<<>>)))
             ELSE Apply(LAMBDA r : IF Returned(r) /\ srid # <<>>
                                   THEN Return([r.value EXCEPT !.meta_srid = srid])
                                   ELSE r,
                        Import(geom_type, S, p + 1, str).res)

\* as assert_next_token, the token read not being compared
assert_next_token_unchecked(S, p, expected) ==
    IF AtEnd(S, p) THEN EndOfTokens(S) ELSE Return(<<>>)

\* _assert_next_token(sequence, expected): the exception it raises, or a
\* return of nothing
assert_next_token(S, p, expected) ==
    IF AtEnd(S, p) THEN EndOfTokens(S)
    ELSE IF S.toks[p] # expected
    THEN Raise("ValueError", "Expected \"%s\" but found \"%s\"", expected, S.toks[p])
    ELSE Return(<<>>)

\* the SRID header of loads, read from the tokens 2..4: the exception raised,
\* or the SRID as a sequence of length 1
SridOf(S) ==
    Apply(LAMBDA equals :
              IF ~Returned(equals) THEN equals
              ELSE IF AtEnd(S, 3) THEN EndOfTokens(S)
              ELSE IF ~IsIntLiteral(S.toks[3]) THEN ToInt(S.toks[3])
              ELSE Apply(LAMBDA semicolon : IF ~Returned(semicolon) THEN semicolon
                                            ELSE Return(<<IntOf(S.toks[3])>>),
                         assert_next_token(S, 4, <<";">>)),
          assert_next_token(S, 2, <<"=">>))

\* loads(string)
loads(str) ==
    Apply(LAMBDA S :
              IF AtEnd(S, 1) THEN EndOfTokens(S)
              ELSE IF S.toks[1] # SRID THEN LoadsBody(S, 1, <<>>, str)
              ELSE Apply(LAMBDA srid : IF Returned(srid)
                                       THEN LoadsBody(S, 5, srid.value, str)
                                       ELSE srid,
                         SridOf(S)),
          tokenize_wkt(str))

----------------------------------------------------------------------------
(* The stream wrappers *)

\* the decimals of dumps when the caller gives none
DefaultDecimals == 16

\* what a function returns that has no return statement
None == Return(<<>>)

\* dump(obj, dest_file, *more): the outcome of the call and the content of
\* dest_file after it, a stream that was empty before.  dump has the two
\* parameters obj and dest_file, so the call with a further positional
\* argument raises TypeError before the body runs.
dump(o, dest_file, more, tieUp) ==
    IF more # <<>>
    THEN [res  |-> Raise("TypeError",
                         "dump() takes 2 positional arguments but %s were given",
                         IntStr(2 + Len(more)), <<>>),
          dest_file |-> dest_file]
    ELSE Apply(LAMBDA text : IF Returned(text)
                             THEN [res |-> None, dest_file |-> dest_file \o text.value]
                             ELSE [res |-> text, dest_file |-> dest_file],
               dumps(o, DefaultDecimals, tieUp))

\* source_file.read() of a stream that was not read before
Read(source_file) == source_file

\* load(source_file)
load(source_file) == loads(Read(source_file))

----------------------------------------------------------------------------
(* Objects *)
(*                                                                         *)
(* A list or a dict of Python is an object with an address; a number or a  *)
(* string is immutable and stands where it is used.  The cell of a list    *)
(* holds its items, numbers or references to the cells of its elements;    *)
(* the cell of a geometry dict holds its type and references to the lists  *)
(* and dicts under its keys.                                               *)

\* a reference to the object at address a
Ref(a) == [k |-> "ref", at |-> a]

\* as Allocate, an object with the content of the cell being taken where the
\* heap holds one
Allocate_reusing_equal(h, cell) ==
    IF \E a \in DOMAIN h : h[a] = cell
    THEN [heap |-> h, ref |-> Ref(CHOOSE a \in DOMAIN h : h[a] = cell)]
    ELSE [heap |-> Append(h, cell), ref |-> Ref(Len(h) + 1)]

\* the heap h with one more object, and the reference to it
Allocate(h, cell) == [heap |-> Append(h, cell), ref |-> Ref(Len(h) + 1)]

\* the heap after the modules are imported: the module-level dicts
\* _dumps_registry, _loads_registry and _type_map_caps_to_mixed
ModuleHeap ==
    << [k |-> "module dict", keys |-> DumpTypes],
       [k |-> "module dict", keys |-> LoadTypes],
       [k |-> "module dict", keys |-> LoadTypes] >>

RECURSIVE StoreItems(_, _, _)
RECURSIVE StoreValue(_, _)
\* the heap h with new objects for the list v and the lists in it, as the
\* expressions [] and append of the loaders build them; a number is no object
StoreValue(h, v) ==
    IF v.k = "number" THEN [heap |-> h, ref |-> v]
    ELSE Apply(LAMBDA st : Allocate(st.heap, [k |-> "list", items |-> st.refs]),
               StoreItems(h, v.items, <<>>))

\* the items stored one after the other, refs holding what stands for those
\* stored so far
StoreItems(h, items, refs) ==
    IF items = <<>> THEN [heap |-> h, refs |-> refs]
    ELSE Apply(LAMBDA st : StoreItems(st.heap, Tail(items), Append(refs, st.ref)),
               StoreValue(h, Head(items)))

\* what is stored under a key that may be absent: nothing, or the object that
\* Store(h, x) builds for the value x
StoreOptional(h, key, Store(_, _)) ==
    IF key = <<>> THEN [heap |-> h, refs |-> <<>>]
    ELSE Apply(LAMBDA st : [heap |-> st.heap, refs |-> <<st.ref>>], Store(h, key[1]))

RECURSIVE StoreGeometries(_, _, _)
RECURSIVE StoreGeometry(_, _)
\* the heap h with new objects for the geometry dict g: the list of its
\* coordinates or of its geometries, its meta dict, its crs dict and the dict
\* itself, as dict(type=..., coordinates=coords) and result['meta'] =
\* dict(srid=srid) build them
StoreGeometry(h, g) ==
    Apply(LAMBDA coords :
        Apply(LAMBDA geoms :
            Apply(LAMBDA meta :
                Apply(LAMBDA crs :
                          Allocate(crs.heap,
                                   [k |-> "dict", type |-> g.type,
                                    coordinates |-> coords.refs,
                                    geometries |-> geoms.refs,
                                    meta |-> meta.refs, crs |-> crs.refs]),
                      StoreOptional(meta.heap, g.crs_name,
                                    LAMBDA hh, name : Allocate(hh, [k |-> "crs", name |-> name]))),
                StoreOptional(geoms.heap, g.meta_srid,
                              LAMBDA hh, n : Allocate(hh, [k |-> "meta", srid |-> n]))),
            StoreOptional(coords.heap, g.geometries,
                          LAMBDA hh, gs : Apply(LAMBDA st : Allocate(st.heap,
                                                                     [k |-> "list",
                                                                      items |-> st.refs]),
                                                StoreGeometries(hh, gs, <<>>)))),
        StoreOptional(h, g.coordinates, StoreValue))

\* the member geometries stored one after the other
StoreGeometries(h, gs, refs) ==
    IF gs = <<>> THEN [heap |-> h, refs |-> refs]
    ELSE Apply(LAMBDA st : StoreGeometries(st.heap, Tail(gs), Append(refs, st.ref)),
               StoreGeometry(h, Head(gs)))

RECURSIVE FetchValue(_, _)
\* the value that the number or reference r stands for in the heap h
FetchValue(h, r) ==
    IF r.k = "number" THEN r
    ELSE List([i \in DOMAIN h[r.at].items |-> FetchValue(h, h[r.at].items[i])])

RECURSIVE FetchGeometry(_, _)
\* the geometry value of the dict at address a, as obj['type'],
\* obj['coordinates'], obj['geometries'] and obj.get read it
FetchGeometry(h, a) ==
    [type |-> h[a].type,
     coordinates |-> [i \in DOMAIN h[a].coordinates |->
                          FetchValue(h, h[a].coordinates[i])],
     geometries |-> [i \in DOMAIN h[a].geometries |->
                         [j \in DOMAIN h[h[a].geometries[i].at].items |->
                              FetchGeometry(h, h[h[a].geometries[i].at].items[j].at)]],
     meta_srid |-> [i \in DOMAIN h[a].meta |-> h[h[a].meta[i].at].srid],
     crs_name |-> [i \in DOMAIN h[a].crs |-> h[h[a].crs[i].at].name]]

----------------------------------------------------------------------------
(* The exporters of rows *)
(*                                                                         *)
(* A row is a dict with the key name and the geometry under the key geom,  *)
(* as process_bigquery_rows_to_shapefile, process_bigquery_rows_to_geojson *)
(* and process_bigquery_rows_to_csv give it to the exporters with the      *)
(* geometry format WKT.  The geometry is a str or a dict.  What an         *)
(* exporter wrote is the sequence of its records, each with the attributes *)
(* and the geometry of a row; written tells whether the output exists.     *)

\* the number of rows of the sample the exporters ask for
SampleSize == 100

\* a str and a dict as the value under the key geom
Str(text) == [k |-> "str", text |-> text]
Dict(g) == [k |-> "dict", value |-> g]

\* the first n items of the sequence, all of them if there are fewer:
\* list(itertools.islice(rows1, max_sample))
Take(s, n) == SubSeq(s, 1, IF Len(s) < n THEN Len(s) ELSE n)

\* _get_sample_rows(rows, max_sample): the two iterators of itertools.tee
\* yield the rows of the original one; the sample is taken from the first,
\* the second is returned with every row still to come
get_sample_rows(rs, max_sample) ==
    [sample_rows |-> Take(rs, max_sample), full_rows |-> rs]

\* the columns of a row but the geometry: {k: v for k, v in row.items() if
\* k != geom_key}
Attributes(row) == [name |-> row.name]

\* what an exporter did: what the call returned or raised, whether the
\* output exists, its records, whether the projection file exists
Exported(res, written, records, prj) ==
    [res |-> res, written |-> written, records |-> records, prj |-> prj]

\* nothing was exported
NothingExported == [written |-> FALSE, records |-> <<>>, prj |-> FALSE]

\* the index of the first of the outcomes that is an exception, one more
\* than their number if there is none
FirstRaise(outs) ==
    Apply(LAMBDA raising : IF raising = {} THEN Len(outs) + 1
                           ELSE CHOOSE i \in raising : \A j \in raising : i <= j,
          {i \in DOMAIN outs : ~Returned(outs[i])})

\* for row in full_rows: the geometry of the row is converted and a record
\* with it and with the attributes of the row is written, until a conversion
\* raises
ExportLoop(full_rows, Convert(_)) ==
    Apply(LAMBDA outs :
              Apply(LAMBDA stop :
                        [res |-> IF stop > Len(outs) THEN None ELSE outs[stop],
                         ended |-> stop > Len(outs),
                         records |-> [i \in 1..(stop - 1) |->
                                         [attributes |-> Attributes(full_rows[i]),
                                          geometry |-> outs[i].value]]],
                    FirstRaise(outs)),
          [i \in DOMAIN full_rows |-> Convert(full_rows[i])])

\* geomet.wkt.loads(geometry)["coordinates"]
ShapefileCoords(row) ==
    IF row.geom.k = "str"
    THEN Apply(LAMBDA r : IF ~Returned(r) THEN r
                          ELSE IF r.value.coordinates = <<>>
                          THEN Raise("KeyError", "%s", <<"coordinates">>, <<>>)
                          ELSE Return(r.value.coordinates[1]),
               loads(row.geom.text))
    ELSE Raise("TypeError", "initial_value must be str or None, not %s", <<"dict">>, <<>>)

\* export_to_shapefile_from_rows(rows, output_path, "geom", GeometryFormat.WKT):
\* nothing when there is no row; the records and shapes of the rows in turn,
\* the with block closing the files when loads raises, the projection file
\* written after it
export_to_shapefile_from_rows(rs) ==
    IF get_sample_rows(rs, SampleSize).sample_rows = <<>>
    THEN Exported(None, FALSE, <<>>, FALSE)
    ELSE Apply(LAMBDA loop : Exported(loop.res, TRUE, loop.records, loop.ended),
               ExportLoop(get_sample_rows(rs, SampleSize).full_rows, ShapefileCoords))

\* shapely.from_wkt(geometry), of the library shapely: the geometry the text
\* denotes, an exception of GEOS for a text that is no WKT.  The texts given
\* here are those that loads reads and texts cut off, which no reader of WKT
\* accepts
from_wkt(text) ==
    Apply(LAMBDA r : IF Returned(r) THEN r
                     ELSE Raise("GEOSException", "ParseException: %s", text, <<>>),
          loads(text))

\* the geometry of a feature: shapely.from_wkt(geometry).__geo_interface__ of
\* a str, a dict as it is
FeatureGeometry(row) ==
    IF row.geom.k = "str" THEN from_wkt(row.geom.text) ELSE Return(row.geom.value)

\* export_to_geojson_from_rows(rows, output_path, "geom", GeometryFormat.WKT):
\* nothing when there is no row; the features are collected and the file is
\* written after the last row
export_to_geojson_from_rows(rs) ==
    IF get_sample_rows(rs, SampleSize).sample_rows = <<>>
    THEN Exported(None, FALSE, <<>>, FALSE)
    ELSE Apply(LAMBDA loop : IF loop.ended THEN Exported(None, TRUE, loop.records, FALSE)
                             ELSE Exported(loop.res, FALSE, <<>>, FALSE),
               ExportLoop(get_sample_rows(rs, SampleSize).full_rows, FeatureGeometry))

\* the column names "geometry" and "WKT"
GeometryName == <<"g", "e", "o", "m", "e", "t", "r", "y">>
WktName == <<"W", "K", "T">>

\* f"geometry_{counter}"
Numbered(counter) == GeometryName \o <<"_">> \o NatStr(counter)

RECURSIVE CounterLoop(_, _)
\* while f"geometry_{counter}" in existing_columns: counter += 1
CounterLoop(existing_columns, counter) ==
    IF Numbered(counter) \in existing_columns
    THEN CounterLoop(existing_columns, counter + 1)
    ELSE counter

\* _get_geometry_column_name without the name "WKT"
get_geometry_column_name_numbered(existing_columns) ==
    IF GeometryName \notin existing_columns THEN GeometryName
    ELSE Numbered(CounterLoop(existing_columns, 1))

\* _get_geometry_column_name(existing_columns)
get_geometry_column_name(existing_columns) ==
    IF GeometryName \notin existing_columns THEN GeometryName
    ELSE IF WktName \notin existing_columns THEN WktName
    ELSE Numbered(CounterLoop(existing_columns, 1))

\* the set of the items of a sequence: set(sample_rows[0].keys())
SetOf(seq) == {seq[i] : i \in DOMAIN seq}

\* the fieldnames of export_to_csv_from_rows for a first row with the keys
\* row_keys: the keys but geom_key in their order, then the geometry column
Fieldnames(row_keys, key) ==
    LET IsAttribute(k) == k # key
    IN  Append(SelectSeq(row_keys, IsAttribute), get_geometry_column_name(SetOf(row_keys)))

\* the geometry column of a row of the CSV file: a str as it is, of a dict
\* shapely.from_geojson(json.dumps(geometry)).wkt, the text the library
\* shapely writes for it
CsvGeometry(row) ==
    IF row.geom.k = "str" THEN Return(row.geom.text)
    ELSE Return([k |-> "shapely wkt", of |-> row.geom.value])

\* export_to_csv_from_rows(rows, output_path, "geom", GeometryFormat.WKT):
\* nothing when there is no row; the header, then the rows in turn, the
\* geometry of a record being what is under the name of the geometry column
export_to_csv_from_rows(rs) ==
    IF get_sample_rows(rs, SampleSize).sample_rows = <<>>
    THEN Exported(None, FALSE, <<>>, FALSE)
    ELSE Apply(LAMBDA loop : Exported(loop.res, TRUE, loop.records, FALSE),
               ExportLoop(get_sample_rows(rs, SampleSize).full_rows, CsvGeometry))

----------------------------------------------------------------------------
(* The inputs of the calls *)

\* the float whole + thousandths / 1000, negated when neg
Dec(neg, whole, thousandths) ==
    FloatVal(neg, whole * Scale + thousandths * (Scale \div 1000))

\* the float millionths / 1000000, negated when neg
Small(neg, millionths) == FloatVal(neg, millionths * (Scale \div 1000000))

\* the ordinates given to _round_and_pad: ints; floats with none, few and many
\* decimals; ties between two neighbours that a double holds exactly (0.5,
\* 2.5, 0.125) and that it does not (2.675, 0.00005); values whose repr has an
\* exponent (0.00001, -0.00003, 0.00005); values that round up to the next
\* power of ten (9.9995, 99.999)
Ordinates ==
    {IntVal(0), IntVal(1), IntVal(2), IntVal(-3), IntVal(107)}
    \cup {Dec(FALSE, 0, 0), Dec(TRUE, 0, 0), Dec(FALSE, 1, 500), Dec(TRUE, 107, 500),
          Dec(FALSE, 43, 0), Dec(FALSE, 2, 675), Dec(FALSE, 0, 500), Dec(FALSE, 2, 500),
          Dec(FALSE, 0, 125), Dec(TRUE, 0, 400), Dec(FALSE, 99, 999)}
    \cup {Small(FALSE, 10), Small(TRUE, 30), Small(FALSE, 50), Small(FALSE, 123450),
          Small(FALSE, 123), Small(FALSE, 9999500)}

\* coordinate tuples of two, three and four ordinates
P12   == <<IntVal(1), IntVal(2)>>
PNeg  == <<Dec(TRUE, 107, 500), Dec(FALSE, 43, 0)>>
PZ    == <<Dec(FALSE, 0, 500), Dec(TRUE, 2, 250), IntVal(10)>>
PZM   == <<Dec(FALSE, 1, 0), Dec(FALSE, 2, 0), Dec(TRUE, 3, 0), Dec(FALSE, 0, 250)>>
PTie  == <<Dec(FALSE, 2, 675), IntVal(-3)>>
P00   == <<Dec(FALSE, 0, 0), Dec(FALSE, 0, 0)>>
P40   == <<Dec(FALSE, 4, 0), Dec(FALSE, 0, 0)>>
P44   == <<Dec(FALSE, 4, 0), Dec(FALSE, 4, 0)>>
P04   == <<Dec(FALSE, 0, 0), Dec(FALSE, 4, 0)>>

Tuples == {P12, PNeg, PZ, PZM, PTie}

\* sequences of points: a closed ring, a line that is no closed ring, a
\* single point
Square == <<P00, P40, P44, P04, P00>>
Open   == <<P12, PNeg>>
Single == <<PZ>>

Lines == {Square, Open, Single}

\* the sequences of 1..n elements of S
SeqsUpTo(S, n) == UNION {[1..k -> S] : k \in 1..n}

\* the Python list of the points ps, of the lines ls, of the polygons gs
PointList(ps) == List([i \in DOMAIN ps |-> List(ps[i])])
LineList(ls) == List([i \in DOMAIN ls |-> PointList(ls[i])])
PolygonList(gs) == List([i \in DOMAIN gs |-> LineList(gs[i])])

\* polygons as sequences of rings
Polygons == {<<Square>>, <<Open, Single>>, <<Single>>}

\* non-empty geometries of the six types with coordinates.  A member of a
\* MultiLineString or of a MultiPolygon may be empty (<<>>), as in the value
\* loads returns for MULTILINESTRING (EMPTY, (1 2, 3 4))
Geometries ==
    {Geometry(Point, List(t)) : t \in Tuples}
    \cup {Geometry(LineString, PointList(l)) : l \in Lines}
    \cup {Geometry(Polygon, LineList(rs)) : rs \in SeqsUpTo(Lines, MaxMembers)}
    \cup {Geometry(MultiPoint, PointList(ps)) : ps \in SeqsUpTo({P12, PNeg, PZ}, MaxMembers)}
    \cup {Geometry(MultiLineString, LineList(ls)) :
              ls \in SeqsUpTo(Lines \cup {<<>>}, MaxMembers) \ {<< <<>> >>}}
    \cup {Geometry(MultiPolygon, PolygonList(gs)) :
              gs \in SeqsUpTo(Polygons \cup {<<>>}, MaxMembers) \ {<< <<>> >>}}

\* the mixed-case names of the six types with coordinates
CoordinateTypes == {Point, LineString, Polygon, MultiPoint, MultiLineString, MultiPolygon}

\* the empty geometries
EmptyGeometries ==
    {Geometry(t, List(<<>>)) : t \in CoordinateTypes} \cup {Collection(<<>>)}

\* geometry collections
Collections ==
    {Collection(<<Geometry(Point, List(P12))>>),
     Collection(<<Geometry(Point, List(PNeg)), Geometry(LineString, PointList(Open))>>),
     Collection(<<Geometry(Point, List(<<>>)), Collection(<<>>)>>)}

\* type names that are no key of _dumps_registry
Circle == <<"C", "i", "r", "c", "l", "e">>
UnknownTypes == {Circle, POINT, <<"p", "o", "i", "n", "t">>}

\* values dumps rejects: an unknown type with and without coordinates, no
\* type, no coordinates, no geometries
InvalidGeometries ==
    {Geometry(t, List(P12)) : t \in UnknownTypes}
    \cup {[Geometry(t, List(P12)) EXCEPT !.coordinates = <<>>] : t \in UnknownTypes}
    \cup {[Geometry(Point, List(P12)) EXCEPT !.type = <<>>],
          [Geometry(Point, List(P12)) EXCEPT !.coordinates = <<>>],
          [Collection(<<>>) EXCEPT !.geometries = <<>>]}

\* SRIDs in meta.srid and names in crs.properties.name
Srids == {4326, 3857, 0, -5}
EPSG4326 == EPSG \o <<"4", "3", "2", "6">>
EPSG3857 == EPSG \o <<"3", "8", "5", "7">>
CrsNames == {EPSG4326, EPSG3857, EPSG \o <<":">> \o <<"4", "3", "2", "6">>}

\* the geometry g with meta.srid and crs.properties.name: a sequence of
\* length 0 leaves the key out
WithSrid(g, meta_srid, crs_name) ==
    [g EXCEPT !.meta_srid = meta_srid, !.crs_name = crs_name]

\* geometries that carry an SRID, a CRS name or both
Referenced ==
    {WithSrid(g, m, c) :
        g \in {Geometry(Point, List(P12)), Geometry(LineString, PointList(Open)),
               Geometry(Point, List(<<>>)), Geometry(MultiPolygon, List(<<>>)),
               Collection(<<>>), Collection(<<Geometry(Point, List(P12))>>)},
        m \in {<<>>} \cup {<<n>> : n \in Srids},
        c \in {<<>>} \cup {<<n>> : n \in CrsNames}}

\* the geometries given to dumps
DumpsInputs ==
    Geometries \cup EmptyGeometries \cup Collections \cup InvalidGeometries \cup Referenced

\* one well-formed text of each of the seven types
WellFormed ==
    {<<"P", "O", "I", "N", "T", " ", "(", "1", " ", "2", ")">>,
     <<"L", "I", "N", "E", "S", "T", "R", "I", "N", "G", " ", "(", "1", " ", "2", ",",
       " ", "-", "3", ".", "5", " ", "4", ")">>,
     <<"P", "O", "L", "Y", "G", "O", "N", " ", "(", "(", "0", " ", "0", ",", " ", "4",
       " ", "0", ",", " ", "4", " ", "4", ")", ",", " ", "(", "1", " ", "1", ",", " ",
       "2", " ", "1", ")", ")">>,
     <<"M", "U", "L", "T", "I", "P", "O", "I", "N", "T", " ", "(", "(", "1", " ", "2",
       ")", ",", " ", "(", "3", " ", "4", ")", ")">>,
     <<"M", "U", "L", "T", "I", "L", "I", "N", "E", "S", "T", "R", "I", "N", "G", " ",
       "(", "(", "1", " ", "2", ",", " ", "3", " ", "4", ")", ",", " ", "(", "5", " ",
       "6", ",", " ", "7", " ", "8", ")", ")">>,
     <<"M", "U", "L", "T", "I", "P", "O", "L", "Y", "G", "O", "N", " ", "(", "(", "(",
       "0", " ", "0", ",", " ", "4", " ", "0", ",", " ", "4", " ", "4", ")", ")", ",",
       " ", "(", "(", "1", " ", "1", ",", " ", "2", " ", "1", ")", ")", ")">>,
     <<"G", "E", "O", "M", "E", "T", "R", "Y", "C", "O", "L", "L", "E", "C", "T", "I",
       "O", "N", " ", "(", "P", "O", "I", "N", "T", " ", "(", "1", " ", "2", ")", ",",
       " ", "L", "I", "N", "E", "S", "T", "R", "I", "N", "G", " ", "(", "1", " ", "2",
       ",", " ", "3", " ", "4", ")", ")">>}

\* the texts TYPE EMPTY of the seven types
EmptyTexts == {t \o <<" ">> \o EMPTY : t \in LoadTypes}

\* the header SRID=n;
SridHeader(n) == SRID \o <<"=">> \o IntStr(n) \o <<";">>

\* texts with an SRID header
SridTexts == {SridHeader(n) \o b : n \in Srids, b \in WellFormed \cup EmptyTexts}

\* the texts that end inside the parenthesised body of the text full: after
\* its first parenthesis and before its last
CutOffs(full) == {SubSeq(full, 1, n) : n \in IndexOf(full, "(") .. (Len(full) - 1)}

CutOffTexts == UNION {CutOffs(full) : full \in WellFormed}

\* keywords that are no key of _loads_registry
CIRCLE == <<"C", "I", "R", "C", "L", "E">>
UnknownKeywords == {CIRCLE, Point, <<"p", "o", "i", "n", "t">>, <<"C", "U", "R", "V", "E">>}

\* what follows the keyword: a body, nothing, a body cut off, EMPTY, no
\* numeral, a closing parenthesis
Rests == {<<" ", "(", "0", " ", "0", " ", "5", ")">>, <<>>, <<" ", "(", "0", " ", "0">>, <<" ", "E", "M", "P", "T", "Y">>, <<" ", "(", "a", ")">>, <<")">>}

UnknownTexts ==
    {h \o k \o r : h \in {<<>>, SridHeader(4326)}, k \in UnknownKeywords, r \in Rests}

\* a MULTIPOLYGON text without the spaces that dumps writes
TightMultiPolygon == 
    <<"M", "U", "L", "T", "I", "P", "O", "L", "Y", "G", "O", "N", "(", "(", "(", "0",
      " ", "0", ",", "4", " ", "0", ")", ")", ",", "(", "(", "1", " ", "1", ",", "2",
      " ", "1", ")", ",", "(", "3", " ", "3", ",", "4", " ", "4", ")", ")", ")">>

\* the texts given to loads
LoadsInputs ==
    WellFormed \cup EmptyTexts \cup SridTexts \cup CutOffTexts \cup UnknownTexts
    \cup {TightMultiPolygon}

\* the tokens the lexer may yield
LexedTokens == {<<"-">>, <<>>, <<"1">>, <<"2", ".", "5">>, <<"(">>, <<",">>, POINT}

\* an ordinate as written in a text, and the float it denotes
Signed(text, neg, whole, thousandths) ==
    [text |-> text, number |-> Dec(neg, whole, thousandths)]

\* ordinates written with and without a minus sign
SignedOrdinates ==
    {Signed(<<"-", "1", "0", "7", ".", "5">>, TRUE, 107, 500),
     Signed(<<"4", "3", ".", "0">>, FALSE, 43, 0),
     Signed(<<"-", "1">>, TRUE, 1, 0),
     Signed(<<"-", " ", "2">>, TRUE, 2, 0),
     Signed(<<"-", ".", "5">>, TRUE, 0, 500),
     Signed(<<"7">>, FALSE, 7, 0),
     Signed(<<"-", "0", ".", "2", "5">>, TRUE, 0, 250)}

----------------------------------------------------------------------------
(* The calls *)

\* no geometry was given
NoObject ==
    [type |-> <<>>, coordinates |-> <<>>, geometries |-> <<>>,
     meta_srid |-> <<>>, crs_name |-> <<>>]

\* no call was made
NoResult == Raise("none", "", <<>>, <<>>)

Init ==
    /\ call = "none"
    /\ ordinate = IntVal(0)
    /\ decimals = 0
    /\ obj = NoObject
    /\ string = <<>>
    /\ lexed = <<>>
    /\ tokens = <<>>
    /\ result = NoResult
    /\ file = <<>>
    /\ extra = <<>>
    /\ heap = ModuleHeap
    /\ held = <<>>
    /\ rows = <<>>
    /\ exported = NothingExported
    /\ start = 0
    /\ rest = <<>>
    /\ columns = <<>>
    /\ geom_key = <<>>
    /\ geometry_column = <<>>
    /\ fieldnames = <<>>

\* _round_and_pad(value, decimals)
RoundAndPad ==
    /\ call = "none"
    /\ \E v \in Ordinates, d \in 0..MaxDecimals, tieUp \in BOOLEAN :
          /\ ordinate' = v
          /\ decimals' = d
          /\ result' = Return(round_and_pad(v, d, tieUp))
    /\ call' = "round_and_pad"
    /\ UNCHANGED <<obj, string, lexed, tokens, streamVars, heapVars, exportVars,
                 bodyVars, headerVars>>

\* dumps(obj, decimals) of a point of two of the ordinates
DumpsPoint ==
    /\ call = "none"
    /\ \E x \in Ordinates, y \in {IntVal(2), Small(FALSE, 10)},
          d \in 0..MaxDecimals, tieUp \in BOOLEAN :
          /\ obj' = Geometry(Point, List(<<x, y>>))
          /\ decimals' = d
          /\ result' = dumps(obj', d, tieUp)
    /\ call' = "dumps"
    /\ UNCHANGED <<ordinate, string, lexed, tokens, streamVars, heapVars, exportVars,
                 bodyVars, headerVars>>

NextRound == RoundAndPad \/ DumpsPoint

SpecRound == Init /\ [][NextRound]_vars

\* the loop of _tokenize_wkt over the tokens ts of the lexer
Stitch ==
    /\ call = "none"
    /\ \E ts \in SeqsUpTo(LexedTokens, MaxLexed) :
          /\ lexed' = ts
          /\ tokens' = stitch(ts, FALSE)
    /\ call' = "tokenize_wkt"
    /\ UNCHANGED <<ordinate, decimals, obj, string, result, streamVars, heapVars, exportVars,
                 bodyVars, headerVars>>

\* loads(string) of the text of a point of two ordinates, obj the point as
\* written
LoadsSigned ==
    /\ call = "none"
    /\ \E a \in SignedOrdinates, b \in SignedOrdinates :
          /\ string' = POINT \o <<" ", "(">> \o a.text \o <<" ">> \o b.text \o <<")">>
          /\ obj' = Geometry(Point, List(<<a.number, b.number>>))
    /\ lexed' = Lex(string').toks
    /\ tokens' = tokenize_wkt(string').toks
    /\ result' = loads(string')
    /\ call' = "loads"
    /\ UNCHANGED <<ordinate, decimals, streamVars, heapVars, exportVars,
                 bodyVars, headerVars>>

NextTokens == Stitch \/ LoadsSigned

SpecTokens == Init /\ [][NextTokens]_vars

\* dumps(obj, decimals)
Dumps ==
    /\ call = "none"
    /\ \E g \in DumpsInputs, d \in 0..MaxDumpDecimals, tieUp \in BOOLEAN :
          /\ obj' = g
          /\ decimals' = d
          /\ result' = dumps(g, d, tieUp)
    /\ call' = "dumps"
    /\ UNCHANGED <<ordinate, string, lexed, tokens, streamVars, heapVars, exportVars,
                 bodyVars, headerVars>>

\* loads(string)
Loads ==
    /\ call = "none"
    /\ \E s \in LoadsInputs :
          /\ string' = s
          /\ result' = loads(s)
    /\ call' = "loads"
    /\ UNCHANGED <<ordinate, decimals, obj, lexed, tokens, streamVars, heapVars, exportVars,
                 bodyVars, headerVars>>

\* loads(dumps(obj, decimals))
LoadsOfDumps ==
    /\ call = "dumps"
    /\ Returned(result)
    /\ string' = result.value
    /\ result' = loads(result.value)
    /\ call' = "loads_of_dumps"
    /\ UNCHANGED <<ordinate, decimals, obj, lexed, tokens, streamVars, heapVars, exportVars,
                 bodyVars, headerVars>>

Next == Dumps \/ Loads \/ LoadsOfDumps

Spec == Init /\ [][Next]_vars

\* dump(obj, dest_file) and dump(obj, dest_file, decimals) with an empty
\* stream
Dump ==
    /\ call = "none"
    /\ \E g \in DumpsInputs, more \in {<<>>} \cup {<<d>> : d \in 0..MaxDumpDecimals},
          tieUp \in BOOLEAN :
          /\ obj' = g
          /\ extra' = more
          /\ result' = dump(g, <<>>, more, tieUp).res
          /\ file' = dump(g, <<>>, more, tieUp).dest_file
    /\ call' = "dump"
    /\ UNCHANGED <<ordinate, decimals, string, lexed, tokens, heapVars, exportVars,
                 bodyVars, headerVars>>

\* load(source_file) with a stream that holds a text
Load ==
    /\ call = "none"
    /\ \E s \in LoadsInputs :
          /\ file' = s
          /\ result' = load(s)
    /\ call' = "load"
    /\ UNCHANGED <<ordinate, decimals, obj, string, lexed, tokens, extra, heapVars, exportVars,
                 bodyVars, headerVars>>

NextStream == Dump \/ Load

SpecStream == Init /\ [][NextStream]_vars

\* the number of geometry values the caller holds at most
MaxHeld == 2

\* the geometries the caller builds itself
BuiltGeometries ==
    {WithSrid(Geometry(Point, List(P12)), <<4326>>, <<>>),
     WithSrid(Geometry(LineString, PointList(Open)), <<>>, <<EPSG4326>>),
     Collection(<<Geometry(Point, List(PNeg)), Geometry(LineString, PointList(Open))>>),
     Geometry(Circle, List(P12))}

\* the texts given to loads when the objects are followed
HeapTexts ==
    WellFormed
    \cup {POINT \o <<" ">> \o EMPTY, SridHeader(4326) \o POINT \o <<" ">> \o EMPTY,
          POINT \o <<" ", "(", "1", " ">>, CIRCLE \o <<" ", "(", "1", " ", "2", ")">>}

\* the heap after dumps(obj, decimals) with obj at address a: dumps and the
\* exporters read obj['type'], obj['coordinates'], obj['geometries'] and
\* obj.get('meta', {}), and assign to no key or item of obj, of a value in it
\* or of a module-level dict
dumps_heap(h, a) == h

\* the caller builds a geometry value
Build ==
    /\ Len(held) < MaxHeld
    /\ \E g \in BuiltGeometries :
          LET st == StoreGeometry(heap, g)
          IN  /\ heap' = st.heap
              /\ held' = Append(held, [at |-> st.ref.at, by |-> "caller"])
    /\ call' = "build"
    /\ result' = NoResult
    /\ UNCHANGED <<ordinate, decimals, obj, string, lexed, tokens, streamVars, exportVars,
                 bodyVars, headerVars>>

\* dumps(obj, decimals) of a geometry value the caller holds
HeldDumps ==
    /\ \E i \in DOMAIN held, tieUp \in BOOLEAN :
          /\ obj' = FetchGeometry(heap, held[i].at)
          /\ result' = dumps(obj', MaxDumpDecimals, tieUp)
          /\ heap' = dumps_heap(heap, held[i].at)
    /\ decimals' = MaxDumpDecimals
    /\ call' = "dumps"
    /\ UNCHANGED <<ordinate, string, lexed, tokens, held, streamVars, exportVars,
                 bodyVars, headerVars>>

\* loads(string), the caller keeping the value returned
KeptLoads ==
    /\ Len(held) < MaxHeld
    /\ \E s \in HeapTexts :
          /\ string' = s
          /\ result' = loads(s)
          /\ IF Returned(result')
             THEN LET st == StoreGeometry(heap, result'.value)
                  IN  /\ heap' = st.heap
                      /\ held' = Append(held, [at |-> st.ref.at, by |-> "loads"])
             ELSE UNCHANGED heapVars
    /\ call' = "loads"
    /\ UNCHANGED <<ordinate, decimals, obj, lexed, tokens, streamVars, exportVars,
                 bodyVars, headerVars>>

NextHeap == Build \/ HeldDumps \/ KeptLoads

SpecHeap == Init /\ [][NextHeap]_vars

\* the number of rows given to an exporter at most
MaxRows == 101

\* the numbers of rows: none, a few, one fewer than the sample and up to more
\* than the sample
RowCounts == 0..2 \cup (SampleSize - 1)..MaxRows

\* the WKT of a polygon and of a point, and a polygon cut off
PolygonWkt == dumps(Geometry(Polygon, LineList(<<Square>>)), 0, TRUE).value
PointWkt == dumps(Geometry(Point, List(P12)), 0, TRUE).value
MalformedWkt == SubSeq(PolygonWkt, 1, Len(PolygonWkt) - 2)

\* the geometries of the rows that are well formed
RowGeometries == {Str(PolygonWkt), Str(PointWkt), Dict(Geometry(Polygon, LineList(<<Square>>)))}

\* n rows named r1, r2, ... with the geometry good, those at the indices in
\* bad with malformed WKT
RowsOf(n, good, bad) ==
    [i \in 1..n |-> [name |-> <<"r">> \o NatStr(i),
                     geom |-> IF i \in bad THEN Str(MalformedWkt) ELSE good]]

\* the keys of a row of RowsOf: name and geom
RowKeys == << <<"n", "a", "m", "e">>, <<"g", "e", "o", "m">> >>

\* the row sequences given to the exporters
RowInputs ==
    {RowsOf(n, good, bad) :
        n \in RowCounts, good \in RowGeometries,
        bad \in {{}, {1}, {2}, {SampleSize}, {SampleSize + 1}, {1, SampleSize + 1}}}

\* process_bigquery_rows_to_shapefile(rows, output_path)
ExportToShapefile ==
    /\ call = "none"
    /\ \E rs \in RowInputs :
          /\ rows' = rs
          /\ \E out \in {export_to_shapefile_from_rows(rs)} :
                /\ result' = out.res
                /\ exported' = [written |-> out.written, records |-> out.records,
                                prj |-> out.prj]
    /\ call' = "export_to_shapefile"
    /\ UNCHANGED <<ordinate, decimals, obj, string, lexed, tokens, streamVars, heapVars,
                 bodyVars, headerVars>>

\* process_bigquery_rows_to_geojson(rows, output_path)
ExportToGeojson ==
    /\ call = "none"
    /\ \E rs \in RowInputs :
          /\ rows' = rs
          /\ \E out \in {export_to_geojson_from_rows(rs)} :
                /\ result' = out.res
                /\ exported' = [written |-> out.written, records |-> out.records,
                                prj |-> out.prj]
    /\ call' = "export_to_geojson"
    /\ UNCHANGED <<ordinate, decimals, obj, string, lexed, tokens, streamVars, heapVars,
                 bodyVars, headerVars>>

\* process_bigquery_rows_to_csv(rows, output_path)
ExportToCsv ==
    /\ call = "none"
    /\ \E rs \in RowInputs :
          /\ rows' = rs
          /\ \E out \in {export_to_csv_from_rows(rs)} :
                /\ result' = out.res
                /\ exported' = [written |-> out.written, records |-> out.records,
                                prj |-> out.prj]
          /\ IF get_sample_rows(rs, SampleSize).sample_rows = <<>>
             THEN UNCHANGED headerVars
             ELSE /\ columns' = RowKeys
                  /\ geom_key' = RowKeys[2]
                  /\ geometry_column' = get_geometry_column_name(SetOf(RowKeys))
                  /\ fieldnames' = Fieldnames(RowKeys, RowKeys[2])
    /\ call' = "export_to_csv"
    /\ UNCHANGED <<ordinate, decimals, obj, string, lexed, tokens, streamVars, heapVars,
                   bodyVars>>

\* the largest k of the column names geometry_k given to the exporter
MaxCounter == 3

\* column names: the ones _get_geometry_column_name tries and others
ColumnNames ==
    <<GeometryName, WktName>> \o [k \in 1..MaxCounter |-> Numbered(k)]
        \o << <<"g", "e", "o", "m">>, <<"n", "a", "m", "e">>, Numbered(0),
              <<"G", "e", "o", "m", "e", "t", "r", "y">> >>

\* the keys of a first row: some of the column names, in the order of
\* ColumnNames or in the opposite order
KeysOf(chosen, backwards) ==
    LET IsChosen(k) == k \in chosen
        ordered == SelectSeq(ColumnNames, IsChosen)
    IN  IF backwards THEN Reversed(ordered) ELSE ordered

\* export_to_csv_from_rows up to writer.writeheader(), for rows whose first
\* row has some of the column names as its keys, one of them the key of the
\* geometry
WriteCsvHeader ==
    /\ call = "none"
    /\ \E chosen \in SUBSET SetOf(ColumnNames) \ {{}}, backwards \in BOOLEAN :
          /\ columns' = KeysOf(chosen, backwards)
          /\ geom_key' \in chosen
          /\ geometry_column' = get_geometry_column_name(chosen)
          /\ fieldnames' = Fieldnames(columns', geom_key')
    /\ call' = "csv_header"
    /\ UNCHANGED <<ordinate, decimals, obj, string, lexed, tokens, result, streamVars,
                   heapVars, exportVars, bodyVars>>

NextExport == ExportToShapefile \/ ExportToGeojson \/ ExportToCsv \/ WriteCsvHeader

SpecExport == Init /\ [][NextExport]_vars

\* the number of points of a MULTIPOINT text at most
MaxPoints == 3

\* points as written in a text: their ordinates with and without a sign, with
\* two and with three dimensions
SignedPoints ==
    {<<Signed(<<"-", "1", "0", "7", ".", "5">>, TRUE, 107, 500),
       Signed(<<"4", "3", ".", "0">>, FALSE, 43, 0)>>,
     <<Signed(<<"7">>, FALSE, 7, 0), Signed(<<"-", " ", "2">>, TRUE, 2, 0)>>,
     <<Signed(<<"-", ".", "5">>, TRUE, 0, 500), Signed(<<"1">>, FALSE, 1, 0),
       Signed(<<"-", "0", ".", "2", "5">>, TRUE, 0, 250)>>,
     <<Signed(<<"0">>, FALSE, 0, 0), Signed(<<"2">>, FALSE, 2, 0)>>}

\* the text of a point: its ordinates with a space between them
SignedText(pt) == Join([i \in DOMAIN pt |-> pt[i].text], <<" ">>)

\* MULTIPOINT((x y),(x y),...) and MULTIPOINT(x y, x y, ...)
ParenthesisedForm(pts) ==
    MULTIPOINT \o Paren(Join([i \in DOMAIN pts |-> Paren(SignedText(pts[i]))], <<",">>))
BareForm(pts) ==
    MULTIPOINT \o Paren(Join([i \in DOMAIN pts |-> SignedText(pts[i])], <<",", " ">>))

\* the list of the points with the floats their ordinates denote
PointsWritten(pts) ==
    List([i \in DOMAIN pts |-> List([j \in DOMAIN pts[i] |-> pts[i][j].number])])

\* loads(string) of a MULTIPOINT text in one of its two forms
LoadsMultiPoint ==
    /\ call = "none"
    /\ \E pts \in SeqsUpTo(SignedPoints, MaxPoints) :
          /\ string' \in {ParenthesisedForm(pts), BareForm(pts)}
          /\ obj' = Geometry(MultiPoint, PointsWritten(pts))
    /\ result' = loads(string')
    /\ call' = "loads_multipoint"
    /\ UNCHANGED <<ordinate, decimals, lexed, tokens, streamVars, heapVars, exportVars,
                 bodyVars, headerVars>>

\* the number of rings of a POLYGON body at most
MaxRings == 2

\* rings as written in a text: closed, of two points, of one point
SignedRings ==
    LET p == [i \in 1..4 |-> CHOOSE pt \in SignedPoints :
                                 pt[1].text = << <<"-", "1", "0", "7", ".", "5">>, <<"7">>,
                                                 <<"-", ".", "5">>, <<"0">> >>[i]]
    IN  {<<p[1], p[2], p[4], p[1]>>, <<p[2], p[4]>>, <<p[3]>>}

\* the body of a polygon: ((x y, x y, ...), (x y, ...), ...)
PolygonBody(rings) ==
    Paren(Join([i \in DOMAIN rings |->
                    Paren(Join([j \in DOMAIN rings[i] |-> SignedText(rings[i][j])],
                               <<",", " ">>))],
               <<",", " ">>))

\* the list of the rings with the points written
RingsWritten(rings) == List([i \in DOMAIN rings |-> PointsWritten(rings[i])])

\* what is around a polygon body: the text before it, the number of its
\* tokens, the text after it.  The body ends a POLYGON text, is the first and
\* the last member of a MULTIPOLYGON, is the body of a member of a
\* GEOMETRYCOLLECTION
BodyContexts ==
    {[before |-> POLYGON \o <<" ">>, read |-> 1, after |-> <<>>],
     [before |-> MULTIPOLYGON \o <<" ", "(">>, read |-> 2,
      after |-> <<",", " ">> \o PolygonBody(<< <<CHOOSE pt \in SignedPoints : TRUE>> >>)
                \o <<")">>],
     [before |-> MULTIPOLYGON \o <<" ", "(">>, read |-> 2, after |-> <<")">>],
     [before |-> GEOMETRYCOLLECTION \o <<" ", "(">> \o POLYGON \o <<" ">>, read |-> 3,
      after |-> <<",", " ">> \o POINT \o <<" ", "(", "1", " ", "2", ")", ")">>]}

\* _load_polygon(tokens, string) with the tokens of a text from the body of a
\* polygon on
LoadPolygon ==
    /\ call = "none"
    /\ \E rings \in SeqsUpTo(SignedRings, MaxRings), around \in BodyContexts :
          /\ string' = around.before \o PolygonBody(rings) \o around.after
          /\ obj' = Geometry(Polygon, RingsWritten(rings))
          /\ start' = around.read + 1
    /\ tokens' = tokenize_wkt(string').toks
    /\ \E out \in {load_polygon(tokenize_wkt(string'), start', string')} :
          /\ result' = out.res
          /\ rest' = SubSeq(tokens', out.pos, Len(tokens'))
    /\ call' = "load_polygon"
    /\ UNCHANGED <<ordinate, decimals, lexed, streamVars, heapVars, exportVars,
                   headerVars>>

\* a text with the token bad where a numeral is expected, for each of the
\* parsers of a type
NonNumeral(bad) ==
    {POINT \o <<" ", "(", "1", " ">> \o bad \o <<")">>,
     LINESTRING \o <<" ", "(", "1", " ", "2", ",", " ">> \o bad \o <<" ", "4", ")">>,
     POLYGON \o <<" ", "(", "(", "1", " ">> \o bad \o <<")", ")">>,
     MULTIPOINT \o <<" ", "(", "1", " ">> \o bad \o <<")">>,
     MULTILINESTRING \o <<" ", "(", "(", "1", " ">> \o bad \o <<")", ")">>,
     MULTIPOLYGON \o <<" ", "(", "(", "(", "1", " ">> \o bad \o <<")", ")", ")">>,
     GEOMETRYCOLLECTION \o <<" ", "(">> \o POINT \o <<" ", "(", "1", " ">> \o bad
         \o <<")", ")">>}

\* texts with a word or a semicolon where a numeral is expected, and a POINT
\* with a comma between its ordinates
NonNumeralTexts ==
    UNION {NonNumeral(bad) : bad \in {<<"a">>, <<"a", "b", "c">>, <<";">>}}
    \cup {POINT \o <<" ", "(", "1", ",", " ", "2", ")">>}

\* texts with punctuation missing or in excess: tokens after the parenthesis
\* that closes the geometry, another token than a comma or none between two
\* members, numerals between the rings of a polygon, commas before the first
\* and after the last point of a MULTIPOINT
PunctuationTexts ==
    {<<"P", "O", "I", "N", "T", " ", "(", "1", " ", "2", ")", " ", "P", "O", "I", "N",
       "T">>,
     <<"P", "O", "I", "N", "T", " ", "(", "1", " ", "2", ")", ")">>,
     <<"P", "O", "I", "N", "T", " ", "(", "1", " ", "2", ")", " ", "3">>,
     <<"L", "I", "N", "E", "S", "T", "R", "I", "N", "G", " ", "(", "1", " ", "2", ",",
       " ", "3", " ", "4", ")", " ", "(">>,
     <<"M", "U", "L", "T", "I", "L", "I", "N", "E", "S", "T", "R", "I", "N", "G", " ",
       "(", "(", "1", " ", "2", ")", " ", "(", "3", " ", "4", ")", ")">>,
     <<"M", "U", "L", "T", "I", "L", "I", "N", "E", "S", "T", "R", "I", "N", "G", " ",
       "(", "(", "1", " ", "2", ")", ";", " ", "(", "3", " ", "4", ")", ")">>,
     <<"M", "U", "L", "T", "I", "L", "I", "N", "E", "S", "T", "R", "I", "N", "G", " ",
       "(", "(", "1", " ", "2", ")", " ", "5", " ", "(", "3", " ", "4", ")", ")">>,
     <<"M", "U", "L", "T", "I", "P", "O", "L", "Y", "G", "O", "N", " ", "(", "(", "(",
       "1", " ", "2", ")", ")", " ", "(", "(", "3", " ", "4", ")", ")", ")">>,
     <<"M", "U", "L", "T", "I", "P", "O", "L", "Y", "G", "O", "N", " ", "(", "(", "(",
       "1", " ", "2", ")", ")", " ", "5", " ", "(", "(", "3", " ", "4", ")", ")", ")">>,
     <<"G", "E", "O", "M", "E", "T", "R", "Y", "C", "O", "L", "L", "E", "C", "T", "I",
       "O", "N", " ", "(", "P", "O", "I", "N", "T", " ", "(", "1", " ", "2", ")", " ",
       "P", "O", "I", "N", "T", " ", "(", "3", " ", "4", ")", ")">>,
     <<"G", "E", "O", "M", "E", "T", "R", "Y", "C", "O", "L", "L", "E", "C", "T", "I",
       "O", "N", " ", "(", "P", "O", "I", "N", "T", " ", "(", "1", " ", "2", ")", " ",
       "5", " ", "P", "O", "I", "N", "T", " ", "(", "3", " ", "4", ")", ")">>,
     <<"G", "E", "O", "M", "E", "T", "R", "Y", "C", "O", "L", "L", "E", "C", "T", "I",
       "O", "N", " ", "(", "P", "O", "I", "N", "T", " ", "(", "1", " ", "2", ")", ";",
       " ", "P", "O", "I", "N", "T", " ", "(", "3", " ", "4", ")", ")">>,
     <<"P", "O", "L", "Y", "G", "O", "N", " ", "(", "(", "1", " ", "2", ")", " ", "3",
       ",", " ", "4", " ", "(", "5", " ", "6", ")", ")">>,
     <<"P", "O", "L", "Y", "G", "O", "N", " ", "(", "(", "1", " ", "2", ")", " ", "3",
       " ", "4", ",", " ", "(", "5", " ", "6", ")", ")">>,
     <<"P", "O", "L", "Y", "G", "O", "N", " ", "(", "(", "1", " ", "2", ")", ",", " ",
       "3", " ", "4", ")">>,
     <<"M", "U", "L", "T", "I", "P", "O", "I", "N", "T", " ", "(", "1", " ", "2", ",",
       ")">>,
     <<"M", "U", "L", "T", "I", "P", "O", "I", "N", "T", " ", "(", ",", " ", "1", " ",
       "2", ")">>,
     <<"M", "U", "L", "T", "I", "P", "O", "I", "N", "T", " ", "(", "(", "1", " ", "2",
       ")", ",", ")">>,
     <<"M", "U", "L", "T", "I", "P", "O", "I", "N", "T", " ", "(", "1", " ", "2", ",",
       ",", " ", "3", " ", "4", ")">>}

\* texts that end before the body of the geometry begins: nothing, blanks, a
\* keyword, an SRID header or the beginning of one
ShortTexts ==
    {<<>>, <<" ", " ">>} \cup LoadTypes
    \cup {SubSeq(SridHeader(4326), 1, n) : n \in {4, 5, 9, 10}}

\* what is written in an SRID header after SRID, after the literal, and the
\* literal: the tokens of a header, other ones, none
AfterSrid == {<<"=">>, <<":">>, <<"=", "=">>, <<" ">>}
SridLiterals == {<<"4", "3", "2", "6">>, <<"-", "5">>, <<"a", "b", "c">>,
                 <<"1", ".", "5">>, <<"0">>}
AfterLiteral == {<<";">>, <<":">>, <<",">>, <<" ">>}

\* the texts after the header
AfterHeader ==
    {POINT \o <<" ", "(", "1", " ", "2", ")">>, POINT \o <<" ">> \o EMPTY,
     CIRCLE \o <<" ", "(", "1", " ", "2", ")">>}

\* loads(string) of a text with no numeral where one is expected
LoadsNonNumeral ==
    /\ call = "none"
    /\ string' \in NonNumeralTexts
    /\ result' = loads(string')
    /\ call' = "loads_non_numeral"
    /\ UNCHANGED <<ordinate, decimals, obj, lexed, tokens, streamVars, heapVars, exportVars,
                   bodyVars, headerVars>>

\* loads(string) of a text with punctuation missing or in excess
LoadsPunctuation ==
    /\ call = "none"
    /\ string' \in PunctuationTexts
    /\ result' = loads(string')
    /\ call' = "loads_punctuation"
    /\ UNCHANGED <<ordinate, decimals, obj, lexed, tokens, streamVars, heapVars, exportVars,
                   bodyVars, headerVars>>

\* loads(string) of a text that ends before the body of the geometry
LoadsShort ==
    /\ call = "none"
    /\ string' \in ShortTexts
    /\ result' = loads(string')
    /\ call' = "loads_short"
    /\ UNCHANGED <<ordinate, decimals, obj, lexed, tokens, streamVars, heapVars, exportVars,
                   bodyVars, headerVars>>

\* loads(string) of a text that begins with SRID
LoadsSridHeader ==
    /\ call = "none"
    /\ \E a \in AfterSrid, n \in SridLiterals, b \in AfterLiteral, g \in AfterHeader :
          string' = SRID \o a \o n \o b \o g
    /\ tokens' = tokenize_wkt(string').toks
    /\ result' = loads(string')
    /\ call' = "loads_srid_header"
    /\ UNCHANGED <<ordinate, decimals, obj, lexed, streamVars, heapVars, exportVars,
                   bodyVars, headerVars>>

\* member texts of a collection whose keyword is a key of _loads_registry
PointMember == <<"P", "O", "I", "N", "T", " ", "(", "1", " ", "2", ")">>
LineStringMember == <<"L", "I", "N", "E", "S", "T", "R", "I", "N", "G", " ", "(", "1",
    " ", "2", ",", " ", "3", " ", "4", ")">>
MultiPointMember == <<"M", "U", "L", "T", "I", "P", "O", "I", "N", "T", " ", "(", "(",
    "1", " ", "2", ")", ",", " ", "(", "3", " ", "4", ")", ")">>
PolygonMember == <<"P", "O", "L", "Y", "G", "O", "N", " ", "(", "(", "0", " ", "0",
    ",", " ", "4", " ", "0", ",", " ", "4", " ", "4", ",", " ", "0", " ", "0", ")",
    ")">>
KnownMembers == {PointMember, LineStringMember, MultiPointMember, PolygonMember}

\* member texts whose keyword is no key of _loads_registry
CircleMember == <<"C", "I", "R", "C", "L", "E", " ", "(", "1", " ", "2", ")">>
LowerCaseMember == <<"p", "o", "i", "n", "t", " ", "(", "1", " ", "2", ")">>
CurveMember == <<"C", "U", "R", "V", "E", " ", "E", "M", "P", "T", "Y">>
UnknownMembers == {CircleMember, LowerCaseMember, CurveMember}

MemberTexts == SeqsUpTo(KnownMembers \cup UnknownMembers, MaxMembers)

\* GEOMETRYCOLLECTION with the member texts ms in its body
CollectionText(ms) == GEOMETRYCOLLECTION \o <<" ">> \o Paren(Join(ms, <<",">>))

\* loads(string) of a GEOMETRYCOLLECTION text
LoadsCollection ==
    /\ call = "none"
    /\ \E ms \in MemberTexts : string' = CollectionText(ms)
    /\ tokens' = tokenize_wkt(string').toks
    /\ result' = loads(string')
    /\ call' = "loads_collection"
    /\ UNCHANGED <<ordinate, decimals, obj, lexed, streamVars, heapVars, exportVars,
                   bodyVars, headerVars>>

NextParse ==
    \/ LoadsCollection
    \/ LoadsMultiPoint
    \/ LoadPolygon
    \/ LoadsNonNumeral
    \/ LoadsPunctuation
    \/ LoadsShort
    \/ LoadsSridHeader

SpecParse == Init /\ [][NextParse]_vars

----------------------------------------------------------------------------
(* Further calls of dumps *)

\* coordinate structures without a number at any depth: [], [[]], [[[]]],
\* [[], []] and [[], [[]]]
HollowLists ==
    {List(<<>>), List(<<List(<<>>)>>), List(<<List(<<List(<<>>)>>)>>),
     List(<<List(<<>>), List(<<>>)>>),
     List(<<List(<<>>), List(<<List(<<>>)>>)>>)}

HollowGeometries == {Geometry(t, c) : t \in CoordinateTypes, c \in HollowLists}

HollowInputs ==
    HollowGeometries \cup {WithSrid(g, <<4326>>, <<>>) : g \in HollowGeometries}
        \cup {WithSrid(g, <<>>, <<EPSG4326>>) : g \in HollowGeometries}
        \cup Collections \cup {WithSrid(g, <<4326>>, <<>>) : g \in Collections}

\* dumps(obj, decimals) of a geometry that may hold no number
DumpsHollow ==
    /\ call = "none"
    /\ \E g \in HollowInputs, d \in 0..MaxDumpDecimals :
          /\ obj' = g
          /\ decimals' = d
          /\ result' = dumps(g, d, FALSE)
    /\ call' = "dumps_hollow"
    /\ UNCHANGED <<ordinate, string, lexed, tokens, streamVars, heapVars, exportVars,
                   bodyVars, headerVars>>

\* geometries of the six types with coordinates that hold a number
FormattedInputs == {g \in Geometries : CountLeaves(g.coordinates[1]) > 0}

\* dumps(obj, decimals) of a geometry that holds a number
DumpsFormatted ==
    /\ call = "none"
    /\ \E g \in FormattedInputs, d \in 0..MaxDumpDecimals, tieUp \in BOOLEAN :
          /\ obj' = g
          /\ decimals' = d
          /\ result' = dumps(g, d, tieUp)
    /\ call' = "dumps_formatted"
    /\ UNCHANGED <<ordinate, string, lexed, tokens, streamVars, heapVars, exportVars,
                   bodyVars, headerVars>>

\* members dumps writes when each is given alone
PlainMembers ==
    {Geometry(Point, List(P12)), Geometry(LineString, PointList(Open)),
     Geometry(MultiPoint, PointList(<<P12, PNeg>>)), Geometry(Point, List(<<>>)),
     Collection(<<>>), Collection(<<Geometry(Point, List(PNeg))>>),
     WithSrid(Geometry(Point, List(PZ)), <<4326>>, <<>>)}

\* members dumps does not write when each is given alone: of a type that is no
\* key of the registry, without coordinates, without type
FaultyMembers ==
    {Geometry(Circle, List(P12)),
     [Geometry(LineString, List(<<>>)) EXCEPT !.coordinates = <<>>],
     NoObject}

\* a Polygon with the coordinates [[]]
HollowPolygon == Geometry(Polygon, List(<<List(<<>>)>>))

\* members with an empty list among their coordinates: a MultiLineString and
\* a MultiPolygon with an empty member
PartlyEmptyMembers ==
    {Geometry(MultiLineString, LineList(<<<<>>, Open>>)),
     Geometry(MultiPolygon, PolygonList(<< <<>>, <<Open>> >>))}

\* members of the other types, with numbers and empty
FurtherMembers ==
    {Geometry(Polygon, LineList(<<Square>>)),
     Geometry(MultiPolygon, PolygonList(<< <<Square>>, <<Open, Single>> >>)),
     Geometry(MultiLineString, LineList(<<Open, Single>>)),
     Geometry(MultiPolygon, List(<<>>)),
     Collection(<<Geometry(Point, List(<<>>)), Collection(<<>>),
                  Geometry(LineString, PointList(Single))>>)}

CollectionInputs ==
    {Collection(ms) :
         ms \in SeqsUpTo(PlainMembers \cup FaultyMembers \cup {HollowPolygon}
                            \cup PartlyEmptyMembers \cup FurtherMembers, MaxMembers)}

\* dumps(obj, decimals) of a GeometryCollection with members
DumpsCollection ==
    /\ call = "none"
    /\ \E g \in CollectionInputs, d \in 0..MaxDumpDecimals, tieUp \in BOOLEAN :
          /\ obj' = g
          /\ decimals' = d
          /\ result' = dumps(g, d, tieUp)
    /\ call' = "dumps_collection"
    /\ UNCHANGED <<ordinate, string, lexed, tokens, streamVars, heapVars, exportVars,
                   bodyVars, headerVars>>

\* the CRS name of the SRID n in the form of an authority and a code
AuthorityCode(n) == EPSG \o <<":">> \o IntStr(n)
EPSG0 == EPSG \o <<"0">>

\* geometries that hold a number, with and without meta.srid and CRS name
CrsInputs ==
    {WithSrid(g, m, c) :
        g \in {Geometry(Point, List(P12)), Geometry(LineString, PointList(Open)),
               Collection(<<Geometry(Point, List(PZ))>>)},
        m \in {<<>>, <<4326>>, <<3857>>, <<0>>},
        c \in {<<>>, <<EPSG4326>>, <<AuthorityCode(4326)>>, <<AuthorityCode(3857)>>,
               <<EPSG0>>}}

\* dumps(obj, decimals) of a geometry with meta.srid, with a CRS name or both
DumpsReferenced ==
    /\ call = "none"
    /\ \E g \in CrsInputs, d \in 0..MaxDumpDecimals, tieUp \in BOOLEAN :
          /\ obj' = g
          /\ decimals' = d
          /\ result' = dumps(g, d, tieUp)
    /\ call' = "dumps_referenced"
    /\ UNCHANGED <<ordinate, string, lexed, tokens, streamVars, heapVars, exportVars,
                   bodyVars, headerVars>>

\* loads(dumps(obj, decimals)) for a GeometryCollection with members
LoadsOfDumpsCollection ==
    /\ call = "dumps_collection"
    /\ Returned(result)
    /\ string' = result.value
    /\ result' = loads(result.value)
    /\ call' = "loads_of_dumps_collection"
    /\ UNCHANGED <<ordinate, decimals, obj, lexed, tokens, streamVars, heapVars, exportVars,
                   bodyVars, headerVars>>

NextDumps ==
    \/ DumpsHollow
    \/ DumpsFormatted
    \/ DumpsCollection
    \/ DumpsReferenced
    \/ LoadsOfDumpsCollection

SpecDumps == Init /\ [][NextDumps]_vars

----------------------------------------------------------------------------
(* Properties of _round_and_pad *)

\* the number a numeral denotes, in units of 10^-FracDigits
Denoted(s) == IF s[1] = "-" THEN -FloatOf(s).mag ELSE FloatOf(s).mag

\* the number a Python number is, in the same units
Amount(v) == IF v.neg THEN -v.mag ELSE v.mag

Distance(a, b) == IF a < b THEN b - a ELSE a - b

\* s is an optional minus sign, digits, a point and exactly d digits
FixedPoint(s, d) ==
    LET u == IF s # <<>> /\ s[1] = "-" THEN Tail(s) ELSE s
    IN  /\ Len(u) >= d + 2
        /\ u[Len(u) - d] = "."
        /\ \A i \in DOMAIN u : i # Len(u) - d => u[i] \in DigitSet

\* s is an optional minus sign and digits
BareInteger(s) ==
    LET u == IF s # <<>> /\ s[1] = "-" THEN Tail(s) ELSE s
    IN  u # <<>> /\ \A i \in DOMAIN u : u[i] \in DigitSet

\* C9: _round_and_pad(value, d) never returns a string with an exponent; for
\* d >= 1 the string is fixed-point with exactly d digits after the point,
\* for d = 0 it is a bare integer without a point; the number it denotes is a
\* multiple of 10^-d nearest to value; an int is written with d zeros after
\* the point, and dumps of Point [1, 2] with decimals 2 is POINT (1.00 2.00).
NumericRendering ==
    /\ call = "round_and_pad" =>
          /\ ~Contains(result.value, "e")
          /\ decimals >= 1 => FixedPoint(result.value, decimals)
          /\ decimals = 0 => BareInteger(result.value)
          /\ 2 * Distance(Denoted(result.value), Amount(ordinate))
                 <= 10 ^ (FracDigits - decimals)
          /\ ordinate.int /\ decimals >= 1 =>
                 result.value = IntStr(Amount(ordinate) \div Scale) \o <<".">>
                                    \o [i \in 1..decimals |-> "0"]
    /\ call = "dumps" /\ obj = Geometry(Point, List(<<IntVal(1), IntVal(2)>>))
                      /\ decimals = 2 =>
          result = Return(<<"P", "O", "I", "N", "T", " ", "(", "1", ".", "0", "0", " ",
                            "2", ".", "0", "0", ")">>)

\* _round_and_pad(0.00001, 5), whose repr is 1e-05, returned 0.00001
SmallValueRendered ==
    /\ call = "round_and_pad"
    /\ ordinate = Small(FALSE, 10)
    /\ decimals = 5
    /\ result = Return(<<"0", ".", "0", "0", "0", "0", "1">>)

----------------------------------------------------------------------------
(* Properties of _tokenize_wkt *)

\* the number of the first i tokens of the lexer that are yielded
Yielded(i) == Cardinality({j \in 1..i : lexed[j] \notin {<<"-">>, <<>>}})

\* the token starts as a numeral does
IsNumeral(t) == t # <<>> /\ t[1] \in DigitSet \cup {"."}

\* C3: _tokenize_wkt never yields the token - and never the empty string; a
\* token - of the lexer that a numeral n follows is yielded with it as the
\* one token -n; loads of a point reads the ordinates written with a minus
\* sign as the negative numbers.
SignStitching ==
    /\ \A i \in DOMAIN tokens : tokens[i] # <<"-">> /\ tokens[i] # <<>>
    /\ \A i \in 1..(Len(lexed) - 1) :
          lexed[i] = <<"-">> /\ IsNumeral(lexed[i + 1]) =>
              /\ Yielded(i + 1) \in DOMAIN tokens
              /\ tokens[Yielded(i + 1)] = <<"-">> \o lexed[i + 1]
    /\ call = "loads" => result = Return(obj)

\* loads of POINT (-107.5 43.0) returned the coordinates [-107.5, 43.0]
NegativeOrdinateLoaded ==
    /\ call = "loads"
    /\ string = POINT \o <<" ", "(", "-", "1", "0", "7", ".", "5", " ", "4", "3", ".",
                           "0", ")">>
    /\ \E i \in DOMAIN lexed : lexed[i] = <<"-">>
    /\ \E i \in DOMAIN tokens : tokens[i] = <<"-", "1", "0", "7", ".", "5">>
    /\ result = Return(Geometry(Point, List(<<FloatVal(TRUE, 107 * Scale + Scale \div 2),
                                              FloatVal(FALSE, 43 * Scale)>>)))

----------------------------------------------------------------------------
(* Properties of dumps and loads *)

\* the Python lists inside x, x among them, have no element
RECURSIVE NoLeaves(_)
NoLeaves(x) == x.k = "list" /\ \A i \in DOMAIN x.items : NoLeaves(x.items[i])

\* every number in x is a multiple of 10^-d
RECURSIVE RoundedTo(_, _)
RoundedTo(x, d) ==
    IF x.k = "number" THEN x.mag % (10 ^ (FracDigits - d)) = 0
    ELSE \A i \in DOMAIN x.items : RoundedTo(x.items[i], d)

\* Python's ==: an int equals the float of the same value, -0.0 equals 0.0
NumEq(a, b) == a.mag = b.mag /\ (a.mag = 0 \/ a.neg = b.neg)

\* a and b are lists of the same length whose elements are the same in order,
\* or numbers that Python's == holds equal
RECURSIVE SameCoordinates(_, _)
SameCoordinates(a, b) ==
    /\ a.k = b.k
    /\ IF a.k = "number" THEN NumEq(a, b)
       ELSE /\ Len(a.items) = Len(b.items)
            /\ \A i \in DOMAIN a.items : SameCoordinates(a.items[i], b.items[i])

\* C1: for a geometry of one of the six types with coordinates, without SRID
\* and CRS, that is not empty and whose ordinates are rounded to decimals,
\* loads(dumps(obj, decimals)) returns a geometry of the same type with the
\* same coordinates in the same order and nesting.
RoundTrip ==
    (/\ call = "loads_of_dumps"
     /\ obj.type[1] \in CoordinateTypes
     /\ obj.meta_srid = <<>>
     /\ obj.crs_name = <<>>
     /\ ~NoLeaves(obj.coordinates[1])
     /\ RoundedTo(obj.coordinates[1], decimals))
    => /\ Returned(result)
       /\ result.value.type = obj.type
       /\ SameCoordinates(result.value.coordinates[1], obj.coordinates[1])

\* the upper-case keyword of a mixed-case type name
CapsName(t) == CHOOSE c \in LoadTypes : type_map_caps_to_mixed(c) = t

\* the empty geometry of the type with the keyword c
EmptyOf(c) ==
    IF c = GEOMETRYCOLLECTION THEN Collection(<<>>)
    ELSE Geometry(type_map_caps_to_mixed(c), List(<<>>))

\* C2: dumps of the empty geometry of a type (no coordinates, or no
\* geometries for a GeometryCollection) is the keyword of the type in upper
\* case followed by EMPTY, and loads of that text returns the empty geometry.
EmptyRoundTrip ==
    /\ obj \in EmptyGeometries /\ call = "dumps" =>
          result = Return(CapsName(obj.type[1]) \o <<" ", "E", "M", "P", "T", "Y">>)
    /\ obj \in EmptyGeometries /\ call = "loads_of_dumps" =>
          /\ string = CapsName(obj.type[1]) \o <<" ", "E", "M", "P", "T", "Y">>
          /\ result = Return(obj)
    /\ \A c \in LoadTypes :
          call = "loads" /\ string = c \o <<" ", "E", "M", "P", "T", "Y">> =>
              result = Return(EmptyOf(c))

\* the empty MultiPolygon was written as MULTIPOLYGON EMPTY and read back
EmptyMultiPolygonRoundTrip ==
    /\ call = "loads_of_dumps"
    /\ obj = Geometry(MultiPolygon, List(<<>>))
    /\ string = MULTIPOLYGON \o <<" ">> \o EMPTY
    /\ result = Return(obj)

\* C4: loads of SRID=n; followed by a well-formed body, a TYPE EMPTY body
\* among them, returns what loads of the body returns with meta.srid n.
SridAttached ==
    call = "loads" =>
        \A n \in Srids, b \in WellFormed \cup EmptyTexts :
            string = SridHeader(n) \o b =>
                /\ Returned(loads(b))
                /\ result = Return([loads(b).value EXCEPT !.meta_srid = <<n>>])

\* C5: dumps of a geometry of a recognized type, empty or not, with meta.srid
\* n and no CRS returns SRID=n; followed by what dumps returns for the
\* geometry without meta.srid.
SridReemitted ==
    (/\ call = "dumps"
     /\ obj.type # <<>>
     /\ obj.type[1] \in CoordinateTypes \cup {GeometryCollection}
     /\ obj.meta_srid # <<>>
     /\ obj.crs_name = <<>>)
    => \E tieUp \in BOOLEAN :
           /\ Returned(dumps([obj EXCEPT !.meta_srid = <<>>], decimals, tieUp))
           /\ result = Return(SridHeader(obj.meta_srid[1])
                              \o dumps([obj EXCEPT !.meta_srid = <<>>], decimals, tieUp).value)

\* the number a CRS name of the form EPSG<digits> denotes
EpsgNumber(name) == DigitsVal(SubSeq(name, Len(EPSG) + 1, Len(name)))

\* C6: dumps of a geometry of a recognized type whose meta.srid and CRS name
\* denote different SRIDs raises the ambiguous CRS/SRID error.
AmbiguousRaised ==
    (/\ call = "dumps"
     /\ obj.type # <<>>
     /\ obj.type[1] \in CoordinateTypes \cup {GeometryCollection}
     /\ obj.meta_srid # <<>>
     /\ obj.crs_name # <<>>
     /\ obj.crs_name[1] \in {EPSG4326, EPSG3857}
     /\ EpsgNumber(obj.crs_name[1]) # obj.meta_srid[1])
    => /\ result.exc = "ValueError"
       /\ result.msg = "Ambiguous CRS/SRID values: %s and %s"

\* C7: loads of a text whose type keyword is none of the seven raises the
\* unsupported geometry type error naming the keyword, whatever follows the
\* keyword and even when nothing follows it; dumps of a value whose type is
\* none of the seven raises the same error naming the type.
UnsupportedTypeRaised ==
    /\ call = "loads" =>
          \A h \in {<<>>, SridHeader(4326)}, k \in UnknownKeywords, r \in Rests :
              string = h \o k \o r =>
                  result = Raise("ValueError", "Unsupported geometry type '%s'", k, <<>>)
    /\ (/\ call = "dumps"
        /\ obj.type # <<>>
        /\ obj.type[1] \notin CoordinateTypes \cup {GeometryCollection})
       => result = Raise("ValueError", "Unsupported geometry type '%s'", obj.type[1], <<>>)

\* loads of CIRCLE (0 0 5) raised the error naming CIRCLE
CircleRejected ==
    /\ call = "loads"
    /\ string = <<"C", "I", "R", "C", "L", "E", " ", "(", "0", " ", "0", " ", "5", ")">>
    /\ result.exc = "ValueError"
    /\ result.arg = <<"C", "I", "R", "C", "L", "E">>

\* C8: loads of a text of one of the seven types that ends inside its
\* parenthesised body raises ValueError with the message Invalid WKT: <text>.
CutOffRejected ==
    call = "loads" /\ string \in CutOffTexts =>
        result = Raise("ValueError", INVALID_WKT_FMT, string, <<>>)

\* no Python list inside x, x among them, is empty
RECURSIVE NoEmptyList(_)
NoEmptyList(x) ==
    x.k = "number" \/ (x.items # <<>> /\ \A i \in DOMAIN x.items : NoEmptyList(x.items[i]))

\* b has the lists of a, of the same lengths and in the same order, and each
\* number of b is a multiple of 10^-d nearest to the number of a in its place
RECURSIVE SameWithin(_, _, _)
SameWithin(a, b, d) ==
    /\ a.k = b.k
    /\ IF a.k = "number"
       THEN 2 * Distance(Amount(a), Amount(b)) <= 10 ^ (FracDigits - d)
       ELSE /\ Len(a.items) = Len(b.items)
            /\ \A i \in DOMAIN a.items : SameWithin(a.items[i], b.items[i], d)

\* C10: loads of the MULTIPOLYGON text that dumps writes for k >= 1 polygons,
\* each with rings and each ring with points, returns k polygons in the order
\* written, each with its rings in order and each ring with its points in
\* order and number, whether or not a ring ends where it starts; and so does
\* loads of a text written without spaces.
PolygonsInOrder ==
    /\ (/\ call = "loads_of_dumps"
        /\ obj.type = <<MultiPolygon>>
        /\ NoEmptyList(obj.coordinates[1]))
       => /\ Returned(result)
          /\ result.value.type = <<MultiPolygon>>
          /\ SameWithin(obj.coordinates[1], result.value.coordinates[1], decimals)
    /\ call = "loads" /\ string = TightMultiPolygon =>
          result = Return(Geometry(MultiPolygon,
                       PolygonList(<< << <<P00, P40>> >>,
                                      << <<<<Dec(FALSE, 1, 0), Dec(FALSE, 1, 0)>>,
                                           <<Dec(FALSE, 2, 0), Dec(FALSE, 1, 0)>>>>,
                                         <<<<Dec(FALSE, 3, 0), Dec(FALSE, 3, 0)>>, P44>> >> >>)))

\* a MultiPolygon of a polygon with two rings that are not closed and of a
\* polygon with a closed ring was written and read back as two polygons, the
\* first with its two rings
UnclosedRingsLoaded ==
    /\ call = "loads_of_dumps"
    /\ obj = Geometry(MultiPolygon, PolygonList(<< <<Open, Single>>, <<Square>> >>))
    /\ decimals = 2
    /\ Returned(result)
    /\ Len(result.value.coordinates[1].items) = 2
    /\ Len(result.value.coordinates[1].items[1].items) = 2
    /\ Len(result.value.coordinates[1].items[1].items[1].items) = 2

----------------------------------------------------------------------------
(* Properties of dump and load *)

\* C11: load(stream) returns or raises what loads of the content of the
\* stream does; dump(obj, stream) and dump(obj, stream, decimals) write to
\* the stream what dumps(obj, decimals) returns, decimals being 16 when it is
\* not given, and raise what dumps raises.
StreamEquivalence ==
    /\ call = "load" => result = loads(file)
    /\ call = "dump" =>
          \E tieUp \in BOOLEAN :
              LET text == dumps(obj, IF extra = <<>> THEN 16 ELSE extra[1], tieUp)
              IN  IF Returned(text) THEN result = Return(<<>>) /\ file = text.value
                  ELSE result = text /\ file = <<>>

----------------------------------------------------------------------------
(* Properties of the objects *)

\* the references in the cell: to the items of a list, to what is under the
\* keys of a dict
RefsOf(cell) ==
    IF cell.k = "list" THEN {cell.items[i] : i \in {j \in DOMAIN cell.items :
                                                    cell.items[j].k = "ref"}}
    ELSE IF cell.k = "dict"
    THEN {r[1] : r \in {cell.coordinates, cell.geometries, cell.meta, cell.crs} \ {<<>>}}
    ELSE {}

RECURSIVE Reach(_, _)
\* the addresses of the objects reached from the object at address a
Reach(h, a) == {a} \cup UNION {Reach(h, r.at) : r \in RefsOf(h[a])}

\* the objects of the modules
ModuleObjects == DOMAIN ModuleHeap

\* no object is part of two values the caller holds or of a module-level dict
\* and of a value returned by loads
NothingShared ==
    \A i \in DOMAIN held :
        held[i].by = "loads" =>
            /\ Reach(heap, held[i].at) \cap ModuleObjects = {}
            /\ \A j \in DOMAIN held \ {i} :
                   Reach(heap, held[i].at) \cap Reach(heap, held[j].at) = {}

----------------------------------------------------------------------------
(* Properties of the exporters *)

\* the row carries a str that loads does not read
Malformed(row) == row.geom.k = "str" /\ ~Returned(loads(row.geom.text))

\* a geometry that is null or empty: None, the empty str, no coordinates
NullGeometry(g) == g \in {<<>>, List(<<>>)}

\* the geometry the exporter of the call writes for a row that is well formed
GeometryWritten(row) ==
    IF call = "export_to_shapefile" THEN ShapefileCoords(row).value
    ELSE IF call = "export_to_geojson" THEN FeatureGeometry(row).value
    ELSE CsvGeometry(row).value

\* C13: an export of rows with WKT to a Shapefile, to GeoJSON or to CSV
\* returns although a row carries malformed WKT; the output has a record for
\* every row with the attributes of the row, with a null or empty geometry
\* for a row with malformed WKT and with its geometry for every other row.
MalformedRowsNulled ==
    call \in {"export_to_shapefile", "export_to_geojson", "export_to_csv"} =>
        /\ Returned(result)
        /\ Len(exported.records) = Len(rows)
        /\ \A i \in DOMAIN rows :
               /\ exported.records[i].attributes = Attributes(rows[i])
               /\ IF Malformed(rows[i]) THEN NullGeometry(exported.records[i].geometry)
                  ELSE exported.records[i].geometry = GeometryWritten(rows[i])

\* C14: export_to_geojson_from_rows and export_to_csv_from_rows write one
\* record for every row they are given, in the order of the rows, each with
\* the attributes of its row, whether the rows are fewer or more than the
\* sample of 100 rows.
OneRecordPerRow ==
    call \in {"export_to_geojson", "export_to_csv"} =>
        /\ Len(exported.records) = Len(rows)
        /\ \A i \in DOMAIN rows : exported.records[i].attributes = Attributes(rows[i])

----------------------------------------------------------------------------
(* Properties of the parsers *)

\* C15: loads returns for MULTIPOINT((x y),(x y),...) and for
\* MULTIPOINT(x y, x y, ...) the same MultiPoint: its coordinates are the
\* points written, one list of floats for each of them in the order of the
\* text, the last one included.
MultiPointForms ==
    call = "loads_multipoint" =>
        /\ result = Return(obj)
        /\ Len(result.value.coordinates[1].items) = Len(obj.coordinates[1].items)

\* a text in the bare form with as many points as there may be was loaded
BareMultiPointLoaded ==
    /\ call = "loads_multipoint"
    /\ string[Len(MULTIPOINT) + 2] # "("
    /\ Returned(result)
    /\ Len(result.value.coordinates[1].items) = MaxPoints

RECURSIVE Closing(_, _, _)
\* the index of the parenthesis that closes the one opened before the token
\* at index i, depth counting those opened and not closed since
Closing(toks, i, depth) ==
    IF toks[i] = <<")">> /\ depth = 0 THEN i
    ELSE Closing(toks, i + 1,
                 IF toks[i] = <<"(">> THEN depth + 1
                 ELSE IF toks[i] = <<")">> THEN depth - 1 ELSE depth)

\* C16: _load_polygon returns for the body of a polygon with one ring or more
\* the rings written, in their order and with their points in order, and
\* reads the tokens up to the parenthesis that closes the body and no further:
\* the tokens after it are left in the token sequence.
PolygonBodyRead ==
    call = "load_polygon" =>
        /\ result = Return(obj)
        /\ rest = SubSeq(tokens, Closing(tokens, start + 1, 0) + 1, Len(tokens))

\* the body of a polygon with as many rings as there may be was read, a comma
\* and a member of the enclosing geometry after it
PolygonMemberRead ==
    /\ call = "load_polygon"
    /\ Returned(result)
    /\ Len(result.value.coordinates[1].items) = MaxRings
    /\ Len(rest) > 1
    /\ rest[1] = <<",">>

\* C17: loads of a text in which a token that cannot be converted to float
\* stands where a numeral is expected raises the error of malformed WKT, whose
\* message carries the text given to loads, and returns no geometry.
NonNumeralRejected ==
    call = "loads_non_numeral" => result = InvalidWkt(string)

\* C18: loads of a text with punctuation missing or in excess raises the
\* error of malformed WKT: tokens after the parenthesis that closes the
\* geometry, another token than a comma or no token between two members,
\* numerals between the rings of a polygon, a comma before the first or after
\* the last point of a MULTIPOINT.
PunctuationRejected ==
    call = "loads_punctuation" => result = InvalidWkt(string)

\* C19: loads of a text that ends before the body of the geometry begins, an
\* empty text, a type keyword alone or an SRID header alone, raises the error
\* of malformed WKT, as for any other text that ends too early.
ShortInputRejected ==
    call = "loads_short" => result = InvalidWkt(string)

\* what loads returns or raises, the SRID it attaches and the text in the
\* message of malformed WKT left aside
Plain(r) ==
    IF Returned(r) THEN Return([r.value EXCEPT !.meta_srid = <<>>])
    ELSE IF r.msg = INVALID_WKT_FMT THEN InvalidWkt(<<>>)
    ELSE r

\* C20: loads of a text whose first token is SRID reads the next three tokens
\* as =, an integer literal and ; in this order: another token in the place
\* of = or of ; raises an error that names the token expected and the token
\* found, a literal that is no integer raises the error of int, and no
\* geometry is returned; the token after these three is read as the keyword
\* of the geometry type, the text from it on being read as by loads.
SridHeaderRead ==
    (call = "loads_srid_header" /\ Len(tokens) >= 5) =>
        IF tokens[2] # <<"=">>
        THEN result = Raise("ValueError", "Expected \"%s\" but found \"%s\"",
                            <<"=">>, tokens[2])
        ELSE IF ~IsIntLiteral(tokens[3])
        THEN /\ result.exc = "ValueError"
             /\ result.msg = "invalid literal for int() with base 10: %s"
             /\ result.arg = tokens[3]
        ELSE IF tokens[4] # <<";">>
        THEN result = Raise("ValueError", "Expected \"%s\" but found \"%s\"",
                            <<";">>, tokens[4])
        ELSE Plain(result) =
                 Plain(loads(SubSeq(string, IndexOf(string, ";") + 1, Len(string))))

\* a text with a colon where the = of the header is expected was rejected
HeaderWithoutEquals ==
    /\ call = "loads_srid_header"
    /\ Len(tokens) >= 5
    /\ tokens[2] = <<":">>
    /\ ~Returned(result)

----------------------------------------------------------------------------
(* Further properties of dumps *)

\* the value has no type, a type with coordinates and no coordinates, or
\* the type GeometryCollection and no geometries
WithoutKey(o) ==
    \/ o.type = <<>>
    \/ o.type[1] \in CoordinateTypes /\ o.coordinates = <<>>
    \/ o.type[1] = GeometryCollection /\ o.geometries = <<>>

\* C21: dumps of a value without type, of a value of a type with coordinates
\* that has no coordinates and of a GeometryCollection without geometries
\* raises the error of an invalid structure, whose message names the value
\* given, and returns no string.
InvalidStructureRaised ==
    (call = "dumps" /\ WithoutKey(obj)) => result = InvalidGeoJSON(obj)

\* dumps was given a Point without coordinates
PointWithoutCoordinates ==
    /\ call = "dumps"
    /\ obj.type = <<Point>>
    /\ obj.coordinates = <<>>
    /\ ~Returned(result)

CollectionOfEmptyDumped ==
    /\ call = "dumps_hollow"
    /\ obj.type = <<GeometryCollection>>
    /\ Len(obj.geometries[1]) > 0
    /\ Returned(result)

\* the number of list levels above the ordinates in the coordinates of a type
Levels(t) ==
    CASE t = Point -> 0
      [] t \in {LineString, MultiPoint} -> 1
      [] t \in {Polygon, MultiLineString} -> 2
      [] t = MultiPolygon -> 3

\* the level of parentheses after the first q characters of a text
LevelAt(text, q) == ParenLev(SubSeq(text, 1, q))

Balanced(text) ==
    /\ \A q \in 0..Len(text) : LevelAt(text, q) >= 0
    /\ LevelAt(text, Len(text)) = 0

ParenDepth(text) ==
    CHOOSE m \in 0..Len(text) :
        /\ \E q \in 0..Len(text) : LevelAt(text, q) = m
        /\ \A q \in 0..Len(text) : LevelAt(text, q) <= m

\* the text of a coordinate structure of n levels: the ordinates of a point
\* separated by one space; points separated by ', ', each in parentheses when
\* wrapPoints; the members of a higher level in parentheses, separated by ', '
RECURSIVE Nested(_, _, _, _, _)
Nested(x, n, wrapPoints, d, tieUp) ==
    IF n = 0
    THEN Join([i \in DOMAIN x.items |-> round_and_pad(x.items[i], d, tieUp)], <<" ">>)
    ELSE Join([i \in DOMAIN x.items |->
                   IF n > 1 \/ wrapPoints
                   THEN Paren(Nested(x.items[i], n - 1, wrapPoints, d, tieUp))
                   ELSE Nested(x.items[i], n - 1, wrapPoints, d, tieUp)],
              <<",", " ">>)

\* the texts of a geometry by its levels, for either rounding of a tie
NestedTexts(o, d) ==
    {Upper(o.type[1]) \o <<" ">>
         \o Paren(Nested(o.coordinates[1], Levels(o.type[1]), o.type[1] = MultiPoint,
                         d, tieUp)) : tieUp \in BOOLEAN}

\* the depth of the parentheses dumps writes for a type
DepthWritten(t) ==
    CASE t \in {Point, LineString} -> 1
      [] t \in {Polygon, MultiLineString, MultiPoint} -> 2
      [] t = MultiPolygon -> 3

\* C23 (amended): the string dumps returns for a geometry that holds a number
\* has balanced parentheses of depth 1 for Point and LineString, 2 for Polygon,
\* MultiLineString and MultiPoint (each point of a MultiPoint is written in
\* parentheses of its own) and 3 for MultiPolygon; the ordinates of a point are
\* separated by one space, and points, rings and members by ', ', in the order
\* of the input.
ParenthesesWritten ==
    call = "dumps_formatted" =>
        /\ Returned(result)
        /\ Balanced(result.value)
        /\ ParenDepth(result.value) = DepthWritten(obj.type[1])
        /\ result.value \in NestedTexts(obj, decimals)

\* dumps wrote a MultiPoint of two points
MultiPointOfTwoWritten ==
    /\ call = "dumps_formatted"
    /\ obj.type = <<MultiPoint>>
    /\ Len(obj.coordinates[1].items) = 2
    /\ Returned(result)

\* C23 as stated: the depth of the parentheses is 1 for Point, LineString and
\* MultiPoint, 2 for Polygon and MultiLineString and 3 for MultiPolygon.
DepthAsCoordinates ==
    call = "dumps_formatted" =>
        /\ Returned(result)
        /\ Balanced(result.value)
        /\ ParenDepth(result.value) =
               (IF Levels(obj.type[1]) = 0 THEN 1 ELSE Levels(obj.type[1]))

\* dumps of a member given alone, without its SRID and its CRS
MemberAlone(geom, d, tieUp) == dumps(WithSrid(geom, <<>>, <<>>), d, tieUp)

\* the outcome made of the outcomes of the members given alone: the texts
\* joined by ',' in one pair of parentheses, or the failure of the first
\* member that fails
AsAlone(o, d, tieUp) ==
    LET outs == [i \in DOMAIN o.geometries[1] |-> MemberAlone(o.geometries[1][i], d, tieUp)]
    IN  IF \A i \in DOMAIN outs : Returned(outs[i])
        THEN Return(GEOMETRYCOLLECTION \o <<" ">>
                        \o Paren(Join([i \in DOMAIN outs |-> outs[i].value], <<",">>)))
        ELSE outs[FirstRaise(outs)]

\* C24: dumps of a GeometryCollection with members returns GEOMETRYCOLLECTION,
\* a space and, in one pair of parentheses, the members joined by ',', each
\* written as dumps writes it alone with the same decimals and without SRID
\* prefix; it fails as dumps fails on the first member it cannot write.
MembersAsAlone ==
    call = "dumps_collection" =>
        \E tieUp \in BOOLEAN : result = AsAlone(obj, decimals, tieUp)

\* the same for collections whose members dumps writes alone, the Polygon
\* [[]] left out
PlainMembersAsAlone ==
    (call = "dumps_collection"
         /\ \A i \in DOMAIN obj.geometries[1] : obj.geometries[1][i] \in PlainMembers)
        => \E tieUp \in BOOLEAN : result = AsAlone(obj, decimals, tieUp)

----------------------------------------------------------------------------
(* Further properties of loads *)

\* the outcome made of the outcomes of loads on each member text alone: the
\* collection of the geometries, or the failure of the first member that fails
OfMembers(ms) ==
    LET outs == [i \in DOMAIN ms |-> loads(ms[i])]
    IN  IF \A i \in DOMAIN outs : Returned(outs[i])
        THEN Return(Collection([i \in DOMAIN outs |-> outs[i].value]))
        ELSE outs[FirstRaise(outs)]

\* C25: in the body of a GEOMETRYCOLLECTION every member is read by the routine
\* of its own keyword, and a member keyword that is none of the seven makes
\* loads fail with the error of an unsupported geometry type that names the
\* keyword, as loads fails on a text that begins with that keyword.
UnknownMemberRejected ==
    call = "loads_collection" =>
        \A ms \in MemberTexts : string = CollectionText(ms) => result = OfMembers(ms)

\* the same for the bodies whose member keywords are all keys of the registry
KnownMembersLoaded ==
    call = "loads_collection" =>
        \A ms \in SeqsUpTo(KnownMembers, MaxMembers) :
            string = CollectionText(ms) => result = OfMembers(ms)

----------------------------------------------------------------------------
(* The SRID prefix of dumps *)

\* the outcomes of dumps for the geometry without meta.srid and CRS name, for
\* either rounding of a tie
PlainOutcomes(o, d) == {dumps(WithSrid(o, <<>>, <<>>), d, tieUp) : tieUp \in BOOLEAN}

\* the outcomes with the prefix SRID=n; before the text
Prefixed(n, outs) == {Return(SRID \o <<"=">> \o n \o <<";">> \o out.value) : out \in outs}

\* C26: for a geometry that holds a number and has the CRS name EPSG:n, dumps
\* returns SRID=n; and the text of the geometry when there is no meta.srid, and
\* the same, without the error of ambiguous values, when meta.srid is n.
AuthorityCodeWritten ==
    call = "dumps_referenced" =>
        \A n \in {4326, 3857} :
            (obj.crs_name = <<AuthorityCode(n)>> /\ obj.meta_srid \in {<<>>, <<n>>})
                => result \in Prefixed(IntStr(n), PlainOutcomes(obj, decimals))

----------------------------------------------------------------------------
(* The name of the geometry column *)

\* the number of the fields of the header with the name
Occurrences(name_sought) ==
    Cardinality({i \in DOMAIN fieldnames : fieldnames[i] = name_sought})

\* C27: _get_geometry_column_name returns a name that is none of the existing
\* columns: geometry if there is no such column, else WKT if there is no such
\* column, else geometry_k for the least k from 1 on without such a column;
\* the header of the CSV file holds the name of the geometry column once.
NewColumnName ==
    (call \in {"csv_header", "export_to_csv"} /\ fieldnames # <<>>) =>
        LET existing == SetOf(columns)
        IN  /\ geometry_column \notin existing
            /\ GeometryName \notin existing => geometry_column = GeometryName
            /\ (GeometryName \in existing /\ WktName \notin existing)
                   => geometry_column = WktName
            /\ (GeometryName \in existing /\ WktName \in existing)
                   => \E k \in 1..(MaxCounter + 1) :
                          /\ geometry_column = Numbered(k)
                          /\ \A j \in 1..(k - 1) : Numbered(j) \in existing
            /\ Occurrences(geometry_column) = 1

\* geometry, WKT and geometry_1 were columns and geometry_2 was returned
SecondNumberReturned ==
    /\ call = "csv_header"
    /\ {GeometryName, WktName, Numbered(1)} \subseteq SetOf(columns)
    /\ geometry_column = Numbered(2)
    /\ geom_key = GeometryName

----------------------------------------------------------------------------
(* The minus sign in _tokenize_wkt *)

\* the lexer's token i is yielded
Kept(i) == lexed[i] \notin {<<"-">>, <<>>}

\* the lexer yielded a token - after the last token yielded before token i
MinusBefore(i) ==
    \E q \in 1..(i - 1) :
        /\ lexed[q] = <<"-">>
        /\ \A r \in (q + 1)..(i - 1) : ~Kept(r)

\* C29: _tokenize_wkt yields one token for each token of the lexer that is
\* neither - nor empty, and none else; the token yielded is the lexer's token
\* after one minus sign when the lexer yielded one or more tokens - since the
\* token yielded before, empty tokens in between or not, and the lexer's token
\* as it is otherwise; a token - that no token follows is dropped.
MinusKeptUntilYield ==
    call = "tokenize_wkt" =>
        /\ Len(tokens) = Cardinality({i \in DOMAIN lexed : Kept(i)})
        /\ \A i \in DOMAIN lexed :
              Kept(i) => tokens[Yielded(i)] =
                             (IF MinusBefore(i) THEN <<"-">> \o lexed[i] ELSE lexed[i])

\* the lexer yielded -, an empty token, a comma and -: the comma was yielded
\* as -, and the last - was dropped
MinusBeforeComma ==
    /\ call = "tokenize_wkt"
    /\ lexed = << <<"-">>, <<>>, <<",">>, <<"-">> >>
    /\ tokens = << <<"-", ",">> >>

----------------------------------------------------------------------------
(* The round trip of a GeometryCollection *)

\* a geometry of one of the seven types with its coordinates rounded to d
\* decimals, or with its geometries such geometries
RECURSIVE Rounded(_, _)
Rounded(g, d) ==
    /\ g.type # <<>>
    /\ g.type[1] \in DumpTypes
    /\ IF g.type[1] = GeometryCollection
       THEN /\ g.geometries # <<>>
            /\ \A i \in DOMAIN g.geometries[1] : Rounded(g.geometries[1][i], d)
       ELSE /\ g.coordinates # <<>>
            /\ RoundedTo(g.coordinates[1], d)

\* the same type and the same coordinates, member by member
RECURSIVE SameGeometry(_, _)
SameGeometry(a, b) ==
    /\ a.type = b.type
    /\ IF a.type = <<GeometryCollection>>
       THEN /\ Len(a.geometries[1]) = Len(b.geometries[1])
            /\ \A i \in DOMAIN a.geometries[1] :
                   SameGeometry(a.geometries[1][i], b.geometries[1][i])
       ELSE SameCoordinates(a.coordinates[1], b.coordinates[1])

\* C30: for a GeometryCollection whose members are geometries of the seven
\* types with ordinates rounded to decimals, members without coordinates and
\* collections with and without members among them, loads(dumps(obj, decimals))
\* returns a GeometryCollection of as many members in the same order, each of
\* the same type and with the same coordinates.
CollectionRoundTrip ==
    (call = "loads_of_dumps_collection" /\ Rounded(obj, decimals))
        => Returned(result) /\ SameGeometry(result.value, obj)

\* no list but the coordinates themselves is empty
RECURSIVE Solid(_)
Solid(x) ==
    \/ x.k = "number"
    \/ x.items # <<>> /\ \A i \in DOMAIN x.items : Solid(x.items[i])

RECURSIVE WithoutEmptyInside(_)
WithoutEmptyInside(g) ==
    IF g.type = <<GeometryCollection>>
    THEN \A i \in DOMAIN g.geometries[1] : WithoutEmptyInside(g.geometries[1][i])
    ELSE g.coordinates[1].items = <<>> \/ Solid(g.coordinates[1])

\* the same for the collections in whose members no list inside the
\* coordinates is empty
SolidCollectionRoundTrip ==
    (call = "loads_of_dumps_collection" /\ Rounded(obj, decimals)
         /\ WithoutEmptyInside(obj))
        => Returned(result) /\ SameGeometry(result.value, obj)

====
